---- MODULE Spec2Model ----
(***************************************************************************)
(* Worker supervision and video job tracking of the backend services       *)
(* (backend/services/minimax_service.py, brightdata_service.py).           *)
(*                                                                         *)
(* The services run on one asyncio event loop: code between two awaits is  *)
(* atomic.  Every coroutine is a task with a position pc; the variable     *)
(* running holds the task that owns the event loop (0 when the loop is     *)
(* free).  A task resumes from an await only when the loop is free, and    *)
(* keeps the loop until its next await.  The operating system (worker      *)
(* processes exiting, becoming ready, hanging) and the wall clock move at  *)
(* any moment.                                                             *)
(***************************************************************************)
EXTENDS Integers, Sequences, FiniteSets, TLC

\* ---------------------------------------------------------------- bounds
\* Number of task slots (concurrent coroutines calling into the service).
NTasks == 3
\* Number of worker processes the operating system lets the service spawn;
\* a further Popen raises.
MaxSpawn == 2
\* Number of workers that crash or hang on their own.
MaxFaults == 1
\* Number of video ids the worker hands out.
NVideos == 1
\* max_checks of _monitor_video_generation (60 in the source), scaled down.
max_checks == 2

\* ------------------------------------------------------ program constants
None == 0
NoFile == 0
Garbage == -1
startup_timeout == 30
retry_delay == 2
MaxBackoff == 10
CleanupWaits == 5
max_retries == 3
\* ApifyService line 44: min_request_interval = 60 / requests_per_minute.
min_request_interval == 6

TaskIds == 1..NTasks
VideoIds == 1..NVideos
\* pid 1 is the process a PID file left by an earlier run names (or garbage);
\* the k-th spawned child gets pid k+1.
PriorPid == 1
Pids == 1..(MaxSpawn + 1)

VARIABLES
    svc,             \* which service class this instance is
    constructed,     \* __init__ has run (it runs _restore_from_pid_file)
    elapsed,         \* ApifyService: seconds since last_request_time (58),
                     \*   counted up to min_request_interval
    mcp_pid,         \* self.mcp_pid (None = 0)
    mcp_process,     \* self.mcp_process: pid of the Popen child (None = 0)
    mcp_session,     \* BrightData: pid the client/session pair is attached to (None = 0)
    hcChecked,       \* last_health_check was set by a periodic check (it starts at 0)
    pidFile,         \* the PID file: NoFile, Garbage (text int() cannot parse) or a pid
    lock_owner,      \* task holding _startup_lock (0 = free)
    lock_waiters,    \* FIFO of tasks suspended in _startup_lock.acquire()
    procState,       \* operating system: pid -> "none" (no such process),
                     \*   "foreign" (a process without the worker signature),
                     \*   "starting" (a worker not answering yet), "up" (a worker
                     \*   that answers), "hung" (a worker that stopped answering),
                     \*   "exited" (a worker that ended after the service signalled
                     \*   it), "faulted" (a worker that died on its own, or hung
                     \*   before it ended)
    termSent,        \* pids the service sent a termination signal (SIGTERM or SIGKILL)
    spawnCount,      \* successful Popen calls so far
    task,            \* task slot -> record (position, locals, per-call measurements)
    running,         \* task owning the event loop (0 = loop free)
    video_status_cache,  \* self.video_status_cache: video id -> VideoStatus or NoRec
    monitors,        \* video id -> number of _monitor_video_generation tasks created
    lastCached       \* video id -> what the last call answered from the cache returned

vars == <<svc, constructed, elapsed, mcp_pid, mcp_process, mcp_session, hcChecked,
          pidFile, lock_owner, lock_waiters, procState,
          termSent, spawnCount, task, running, video_status_cache, monitors,
          lastCached>>

jobVars == <<video_status_cache, monitors, lastCached>>

supVars == <<mcp_pid, mcp_process, mcp_session, hcChecked, pidFile,
             lock_owner, lock_waiters>>

\* ------------------------------------------------------------- positions
\* Positions at which a task is suspended in an await (or not running at all).
SuspendedPcs == {"idle", "done", "e_hc1", "e_hc2", "e_ping", "e_lockwait", "e_hc3",
                 "w_probe", "w_ping", "w_sleep", "c_closing", "c_pwait", "c_gwait",
                 "g_post", "g_sleep", "q_get", "q_sleep", "m_wait",
                 "s_call", "s_sleep", "a_wait", "a_req", "a_sleep"}

\* Locals of a task: ccont (who called _cleanup_existing_process), ci (sleeps
\* done in a cleanup wait loop), rc (retry_count of the readiness loop), sess
\* (the session object an awaited call was made on); a local is reset when the
\* code no longer reads it.  Measurements of the call:
\* sp (Popen calls it made), newpid (the child it spawned), tm (1: it sent a
\* termination signal; 2: sending one raised), sawDead (one of its liveness checks failed), pre (what
\* the liveness checks would say of the held worker when the call began), solo
\* (no other call overlapped it so far).
\* Locals of the video operations: vid (video_id), att (attempt), chk (the loop
\* index i of the monitor), out (what the operation returned or raised).
\* Measurements of a gateway call's retry loop while it runs: reqs (requests it
\* sent), slept (the backoff sleeps of the loop, each with its delay d and with
\* the failure that is retried), waits (the sleeps of _enforce_rate_limit), rem
\* (seconds left of the sleep a _make_request caller is in; the delay of the
\* sleep a readiness loop is in).
NoRec == [status |-> "absent", progress |-> "none", error |-> "none"]

IdleTask == [kind |-> "free", pc |-> "idle", ret |-> FALSE, ccont |-> "none",
             ci |-> 0, rc |-> 0, sess |-> 0, tm |-> 0, sp |-> 0, newpid |-> 0,
             sawDead |-> FALSE, pre |-> "none", solo |-> FALSE,
             vid |-> 0, att |-> 0, chk |-> 0, out |-> NoRec,
             reqs |-> 0, slept |-> <<>>, waits |-> 0, rem |-> 0]

Quiet(u) == task[u].pc \in {"idle", "done"}

\* Task slots are used once each, in order.
NextFree(t) == task[t].kind = "free" /\ \A u \in TaskIds : u < t => task[u].kind /= "free"

\* The event-loop rule: a suspended task resumes when the loop is free, a task
\* in the middle of a segment continues only while it owns the loop.
CanRun(t) == IF task[t].pc \in SuspendedPcs THEN running = 0 ELSE running = t

Yield(t, tk) == running' = IF tk.pc \in SuspendedPcs THEN 0 ELSE t

\* ------------------------------------------------------------ liveness checks
\* _is_process_running: the pid exists, is no zombie, and its command line
\* carries the worker signature; every psutil error is False.
Alive(p) == procState[p] \in {"starting", "up", "hung"}

\* What is left of worker p when it ends after a signal of the service.
Dead(p) == IF procState[p] = "hung" THEN "faulted" ELSE "exited"

Responsive(p) == procState[p] = "up"

AnyProcessRunning(pid) == pid /= None /\ (Alive(pid) \/ procState[pid] = "foreign")

IsProcessRunning(pid) == pid /= None /\ Alive(pid)

\* MiniMax _check_mcp_health: GET localhost:8192/status answers 200.  The probe
\* names the port, not a pid: whichever worker serves the port answers.
CheckMcpHealth == \E p \in Pids : Responsive(p)

\* BrightData mcp_session.ping(): the session speaks over the pipes of the
\* child it was built on.
PingOk(sess) == sess /= None /\ Responsive(sess)

\* Popen.poll() is None: the child has not exited.
PollIsNone(p) == Alive(p)

\* ----------------------------------------------------------------- PID file
\* os.unlink(self._pid_file) when it exists.
UnlinkKeepsFile == UNCHANGED pidFile

UnlinkPidFile == pidFile' = NoFile

\* with open(self._pid_file, 'w') as f: f.write(str(pid))
WriteSkipped(p) == UNCHANGED pidFile

WritePidFile(p) == pidFile' = p

\* ------------------------------------------------------------------- Init
Init ==
    /\ svc \in {"minimax", "brightdata"}
    /\ constructed = FALSE
    /\ elapsed = min_request_interval
    /\ mcp_pid = None
    /\ mcp_process = None
    /\ mcp_session = None
    /\ hcChecked = FALSE                    \* last_health_check = 0
    /\ pidFile \in {NoFile, Garbage, PriorPid}
    /\ \E st \in {"none", "up", "foreign"} :
          /\ (pidFile /= PriorPid => st = "none")
          /\ procState = [p \in Pids |-> IF p = PriorPid THEN st ELSE "none"]
    /\ lock_owner = 0
    /\ lock_waiters = <<>>
    /\ termSent = {}
    /\ spawnCount = 0
    /\ task = [t \in TaskIds |-> IdleTask]
    /\ running = 0
    /\ video_status_cache = [v \in VideoIds |-> NoRec]
    /\ monitors = [v \in VideoIds |-> 0]
    /\ lastCached = [v \in VideoIds |-> NoRec]

\* ------------------------------------------------------------ environment
\* The operating system moves between the segments of the event loop: a
\* segment between two awaits takes no time.
\* A worker finishes starting and answers requests.  MiniMax workers serve one
\* fixed port, so only one live worker can be the one that answers.
WorkerReady(p) ==
    /\ running = 0
    /\ procState[p] = "starting"
    /\ (svc = "minimax" => ~\E q \in Pids : procState[q] \in {"up", "hung"})
    /\ procState' = [procState EXCEPT ![p] = "up"]
    /\ UNCHANGED <<svc, constructed, elapsed, supVars, termSent, spawnCount, task, running,
                   jobVars>>

\* A worker that was sent SIGTERM exits.
WorkerExits(p) ==
    /\ running = 0
    /\ Alive(p)
    /\ p \in termSent
    /\ procState' = [procState EXCEPT ![p] = Dead(p)]
    /\ UNCHANGED <<svc, constructed, elapsed, supVars, termSent, spawnCount, task, running,
                   jobVars>>

\* Workers that crashed or hung so far.
Faulty == {p \in Pids : procState[p] \in {"hung", "faulted"}}

MayFault(p) == p \in Faulty \/ Cardinality(Faulty) < MaxFaults

\* A worker dies on its own.
WorkerCrashes(p) ==
    /\ running = 0
    /\ MayFault(p)
    /\ Alive(p)
    /\ p \notin termSent
    /\ procState' = [procState EXCEPT ![p] = "faulted"]
    /\ UNCHANGED <<svc, constructed, elapsed, supVars, termSent, spawnCount, task, running,
                   jobVars>>

\* A worker stops answering while its process stays alive.
WorkerHangs(p) ==
    /\ running = 0
    /\ MayFault(p)
    /\ procState[p] \in {"starting", "up"}
    /\ procState' = [procState EXCEPT ![p] = "hung"]
    /\ UNCHANGED <<svc, constructed, elapsed, supVars, termSent, spawnCount, task, running,
                   jobVars>>

\* ------------------------------------------------------------ construction
\* __init__ -> _restore_from_pid_file.
RestoreFromPidFile ==
    /\ ~constructed
    /\ running = 0
    /\ constructed' = TRUE
    /\ IF pidFile = NoFile
         THEN UNCHANGED <<mcp_pid, pidFile>>
         ELSE IF pidFile = Garbage             \* int() raises: except branch
           THEN /\ UnlinkPidFile
                /\ UNCHANGED mcp_pid
           ELSE IF IsProcessRunning(pidFile)
             THEN /\ mcp_pid' = pidFile
                  /\ UNCHANGED pidFile
             ELSE /\ UnlinkPidFile
                  /\ UNCHANGED mcp_pid
    /\ UNCHANGED <<svc, elapsed, mcp_process, mcp_session, hcChecked, lock_owner,
                   lock_waiters, procState, termSent, spawnCount, task, running,
                   jobVars>>

\* ------------------------------------------------------- ensure_mcp_running
\* What the caller of ensure_mcp_running does with its result r: a plain caller
\* has its answer; generate_video (343-344, 374-382) and get_video_status
\* (496-497, 500-506) raise RuntimeError on False and send their first request
\* on True.  scrape_instagram_user does the same with its first call (337-338)
\* and ignores the result of the call it makes before a retry (402-405).
\* Inside _monitor_video_generation the RuntimeError reaches the
\* except clause of the monitor (471).
Raised == [status |-> "raised", progress |-> "none", error |-> "start"]

\* The caller sends its request whatever ensure_mcp_running answered.
EnsureReturnDispatches(tk, r) ==
    LET b == [tk EXCEPT !.ret = r, !.ccont = "none", !.ci = 0, !.rc = 0, !.sess = 0] IN
    CASE tk.kind = "gen" -> [b EXCEPT !.pc = "g_post", !.att = 0, !.reqs = 1]
      [] tk.kind \in {"status", "result", "monitor"} ->
            [b EXCEPT !.pc = "q_get", !.att = 0, !.reqs = 1]
      [] tk.kind = "scrape" -> [b EXCEPT !.pc = "s_try"]
      [] OTHER -> [b EXCEPT !.pc = "done"]

EnsureReturn(tk, r) ==
    LET b == [tk EXCEPT !.ret = r, !.ccont = "none", !.ci = 0, !.rc = 0, !.sess = 0] IN
    CASE tk.kind = "gen" ->
            IF r THEN [b EXCEPT !.pc = "g_post", !.att = 0, !.reqs = 1]
                 ELSE [b EXCEPT !.pc = "done", !.out = Raised]
      [] tk.kind \in {"status", "result"} ->
            IF r THEN [b EXCEPT !.pc = "q_get", !.att = 0, !.reqs = 1]
                 ELSE [b EXCEPT !.pc = "done", !.out = Raised]
      [] tk.kind = "monitor" ->
            IF r THEN [b EXCEPT !.pc = "q_get", !.att = 0, !.reqs = 1]
                 ELSE [b EXCEPT !.pc = "m_except", !.out = Raised]
      [] tk.kind = "scrape" ->
            IF r \/ tk.slept /= <<>> THEN [b EXCEPT !.pc = "s_try"]
                 ELSE [b EXCEPT !.pc = "done", !.out = Raised]
      [] OTHER -> [b EXCEPT !.pc = "done"]

\* The held worker as the liveness checks see it when a call begins.
HeldWorker ==
    IF mcp_pid = None THEN "none"
    ELSE IF svc = "minimax"
      THEN (IF Responsive(mcp_pid) /\ mcp_pid \notin termSent THEN "live" ELSE "dead")
      ELSE (IF ~Alive(mcp_pid) \/ mcp_pid \in termSent THEN "dead"
            ELSE IF mcp_session = None THEN (IF Responsive(mcp_pid) THEN "live" ELSE "dead")
            ELSE IF PingOk(mcp_session) THEN "live" ELSE "dead")

\* Line 170 (MiniMax) / 123 (BrightData): current_time - last_health_check >
\* health_check_interval.  last_health_check starts at 0, so the first test is
\* true; afterwards it depends on how long ago the last periodic check was.
StaleNow == IF hcChecked THEN BOOLEAN ELSE {TRUE}

\* A request handler (or startup) calls ensure_mcp_running().
CallEnsure(t) ==
    /\ constructed
    /\ NextFree(t)
    /\ running = 0
    /\ task' = [u \in TaskIds |->
                  IF u = t
                  THEN [IdleTask EXCEPT !.kind = "ensure", !.pc = "e_begin",
                                        !.pre = HeldWorker,
                                        !.solo = \A v \in TaskIds \ {t} : Quiet(v)]
                  ELSE IF Quiet(u) THEN task[u]
                  ELSE [task[u] EXCEPT !.solo = FALSE]]
    /\ running' = t
    /\ UNCHANGED <<svc, constructed, elapsed, supVars, procState, termSent, spawnCount,
                   jobVars>>

\* Lines 169-179 (MiniMax) / 122-134 (BrightData): the periodic health check.
\* A call that holds an identity and finds the last check less than
\* health_check_interval old skips the block (position e_fresh).
EnsureBegin(t) ==
    /\ task[t].pc = "e_begin"
    /\ running = t
    /\ \E stale \in StaleNow :
       IF mcp_pid /= None /\ stale
         THEN /\ hcChecked' = TRUE
              /\ IF ~IsProcessRunning(mcp_pid)
                   THEN /\ mcp_pid' = None
                        /\ mcp_session' = IF svc = "brightdata" THEN None ELSE mcp_session
                        /\ UnlinkPidFile
                        /\ task' = [task EXCEPT ![t].pc = "e182", ![t].sawDead = TRUE]
                   ELSE /\ UNCHANGED <<mcp_pid, mcp_session, pidFile>>
                        /\ task' = [task EXCEPT ![t].pc =
                                      IF svc = "minimax" THEN "e_hc1" ELSE "e182"]
         ELSE /\ UNCHANGED <<hcChecked, mcp_pid, mcp_session, pidFile>>
              /\ task' = [task EXCEPT ![t].pc =
                            IF mcp_pid /= None THEN "e_fresh" ELSE "e182"]
    /\ Yield(t, task'[t])
    /\ UNCHANGED <<svc, constructed, elapsed, mcp_process, lock_owner, lock_waiters,
                   procState, termSent, spawnCount, jobVars>>

\* MiniMax line 174: the answer of the periodic _check_mcp_health arrives.
EnsureHealthPeriodic(t) ==
    /\ task[t].pc = "e_hc1"
    /\ running = 0
    /\ IF CheckMcpHealth
         THEN UNCHANGED <<mcp_pid, pidFile>>
         ELSE /\ mcp_pid' = None
              /\ UnlinkPidFile
    /\ task' = [task EXCEPT ![t].pc = "e182",
                            ![t].sawDead = @ \/ ~CheckMcpHealth]
    /\ running' = t
    /\ UNCHANGED <<svc, constructed, elapsed, mcp_process, mcp_session, hcChecked,
                   lock_owner, lock_waiters, procState, termSent, spawnCount,
                   jobVars>>

\* Line 182 (MiniMax) / 137 (BrightData): is an identity held?
EnsureCheckHeld(t) ==
    /\ task[t].pc \in {"e182", "e_fresh"}
    /\ running = t
    /\ task' = [task EXCEPT
                  ![t].pc = IF svc = "minimax"
                              THEN (IF mcp_pid /= None THEN "e_hc2" ELSE "e_lock")
                              ELSE (IF mcp_pid /= None /\ mcp_session /= None
                                      THEN "e_ping" ELSE "e_lock"),
                  ![t].sess = mcp_session]
    /\ Yield(t, task'[t])
    /\ UNCHANGED <<svc, constructed, elapsed, supVars, procState, termSent, spawnCount,
                   jobVars>>

\* MiniMax lines 185-191: the answer of the second _check_mcp_health arrives.
EnsureHealthHeld(t) ==
    /\ task[t].pc = "e_hc2"
    /\ running = 0
    /\ IF CheckMcpHealth
         THEN /\ task' = [task EXCEPT ![t] = EnsureReturn(task[t], TRUE)]
              /\ UNCHANGED mcp_pid
         ELSE /\ mcp_pid' = None
              /\ task' = [task EXCEPT ![t].pc = "e_lock", ![t].sawDead = TRUE]
    /\ Yield(t, task'[t])
    /\ UNCHANGED <<svc, constructed, elapsed, mcp_process, mcp_session, hcChecked, pidFile,
                   lock_owner, lock_waiters, procState, termSent, spawnCount,
                   jobVars>>

\* BrightData lines 140-146: the answer of mcp_session.ping() arrives.
EnsurePing(t) ==
    /\ task[t].pc = "e_ping"
    /\ running = 0
    /\ IF PingOk(task[t].sess)
         THEN /\ task' = [task EXCEPT ![t] = EnsureReturn(task[t], TRUE)]
              /\ UNCHANGED <<mcp_pid, mcp_session>>
         ELSE /\ mcp_pid' = None
              /\ mcp_session' = None
              /\ task' = [task EXCEPT ![t].pc = "e_lock", ![t].sess = 0,
                                      ![t].sawDead = TRUE]
    /\ Yield(t, task'[t])
    /\ UNCHANGED <<svc, constructed, elapsed, mcp_process, hcChecked, pidFile, lock_owner,
                   lock_waiters, procState, termSent, spawnCount, jobVars>>

\* The caller goes on without taking the lock.
EnsureAcquireUnlocked(t) ==
    /\ task[t].pc = "e_lock"
    /\ running = t
    /\ task' = [task EXCEPT ![t].pc = "e196"]
    /\ running' = t
    /\ UNCHANGED <<svc, constructed, elapsed, supVars, procState, termSent,
                   spawnCount, jobVars>>

\* async with self._startup_lock: asyncio.Lock.acquire() returns at once when
\* the lock is free and nobody waits, and otherwise queues the caller.
EnsureAcquire(t) ==
    /\ task[t].pc = "e_lock"
    /\ running = t
    /\ IF lock_owner = 0 /\ lock_waiters = <<>>
         THEN /\ lock_owner' = t
              /\ UNCHANGED lock_waiters
              /\ task' = [task EXCEPT ![t].pc = "e196"]
         ELSE /\ lock_waiters' = Append(lock_waiters, t)
              /\ UNCHANGED lock_owner
              /\ task' = [task EXCEPT ![t].pc = "e_lockwait"]
    /\ Yield(t, task'[t])
    /\ UNCHANGED <<svc, constructed, elapsed, mcp_pid, mcp_process, mcp_session, hcChecked,
                   pidFile, procState, termSent, spawnCount, jobVars>>

\* The lock was released: its first waiter is woken and takes it.
EnsureLockWake(t) ==
    /\ task[t].pc = "e_lockwait"
    /\ running = 0
    /\ lock_owner = 0
    /\ lock_waiters /= <<>>
    /\ Head(lock_waiters) = t
    /\ lock_owner' = t
    /\ lock_waiters' = Tail(lock_waiters)
    /\ task' = [task EXCEPT ![t].pc = "e196"]
    /\ running' = t
    /\ UNCHANGED <<svc, constructed, elapsed, mcp_pid, mcp_process, mcp_session, hcChecked,
                   pidFile, procState, termSent, spawnCount, jobVars>>

\* Line 196 (MiniMax) / 151 (BrightData): the double check under the lock.
EnsureDoubleCheck(t) ==
    /\ task[t].pc = "e196"
    /\ running = t
    /\ IF svc = "minimax"
         THEN /\ task' = [task EXCEPT
                            ![t].pc = IF mcp_pid /= None THEN "e_hc3" ELSE "c_begin",
                            ![t].ccont = IF mcp_pid /= None THEN "none" ELSE "spawn"]
              /\ UNCHANGED lock_owner
         ELSE IF mcp_pid /= None /\ mcp_session /= None
           THEN /\ task' = [task EXCEPT ![t] = EnsureReturn(task[t], TRUE)]
                /\ lock_owner' = 0
           ELSE /\ task' = [task EXCEPT ![t].pc = "c_begin", ![t].ccont = "spawn"]
                /\ UNCHANGED lock_owner
    /\ Yield(t, task'[t])
    /\ UNCHANGED <<svc, constructed, elapsed, mcp_pid, mcp_process, mcp_session, hcChecked,
                   pidFile, lock_waiters, procState, termSent, spawnCount,
                   jobVars>>

\* MiniMax line 196: the answer of _check_mcp_health under the lock arrives.
EnsureHealthLocked(t) ==
    /\ task[t].pc = "e_hc3"
    /\ running = 0
    /\ IF CheckMcpHealth
         THEN /\ task' = [task EXCEPT ![t] = EnsureReturn(task[t], TRUE)]
              /\ lock_owner' = 0
         ELSE /\ task' = [task EXCEPT ![t].pc = "c_begin", ![t].ccont = "spawn",
                                      ![t].sawDead = TRUE]
              /\ UNCHANGED lock_owner
    /\ Yield(t, task'[t])
    /\ UNCHANGED <<svc, constructed, elapsed, mcp_pid, mcp_process, mcp_session, hcChecked,
                   pidFile, lock_waiters, procState, termSent, spawnCount,
                   jobVars>>

\* -------------------------------------------------- _cleanup_existing_process
\* BrightData lines 269-275: close the MCP client first, when there is one.
CleanupBegin(t) ==
    /\ task[t].pc = "c_begin"
    /\ running = t
    /\ task' = [task EXCEPT ![t].pc = IF svc = "brightdata" /\ mcp_session /= None
                                        THEN "c_closing" ELSE "c_proc"]
    /\ Yield(t, task'[t])
    /\ UNCHANGED <<svc, constructed, elapsed, supVars, procState, termSent, spawnCount,
                   jobVars>>

\* BrightData: mcp_client.close() returned (or raised, which is only logged).
CleanupClientClosed(t) ==
    /\ task[t].pc = "c_closing"
    /\ running = 0
    /\ mcp_session' = None
    /\ task' = [task EXCEPT ![t].pc = "c_proc"]
    /\ running' = t
    /\ UNCHANGED <<svc, constructed, elapsed, mcp_pid, mcp_process, hcChecked, pidFile,
                   lock_owner, lock_waiters, procState, termSent, spawnCount,
                   jobVars>>

\* Lines 289-299: terminate() the child this instance started, then poll it.
CleanupTerminateChild(t) ==
    /\ task[t].pc = "c_proc"
    /\ running = t
    /\ IF mcp_process /= None /\ PollIsNone(mcp_process)
         THEN /\ termSent' = termSent \cup {mcp_process}
              /\ task' = [task EXCEPT ![t].pc = "c_pwait", ![t].ci = 1,
                                      ![t].tm = 1]
         ELSE /\ UNCHANGED termSent
              /\ task' = [task EXCEPT ![t].pc = "c_pid"]
    /\ Yield(t, task'[t])
    /\ UNCHANGED <<svc, constructed, elapsed, supVars, procState, spawnCount, jobVars>>

\* Lines 296-304: one second later; after CleanupWaits sleeps a child that is
\* still alive is killed.  A handle reset meanwhile raises inside the try.
CleanupWaitChild(t) ==
    /\ task[t].pc = "c_pwait"
    /\ running = 0
    /\ IF mcp_process = None \/ ~PollIsNone(mcp_process)
         THEN /\ task' = [task EXCEPT ![t].pc = "c_pid", ![t].ci = 0]
              /\ UNCHANGED <<procState, termSent>>
         ELSE IF task[t].ci < CleanupWaits
           THEN /\ task' = [task EXCEPT ![t].ci = @ + 1]
                /\ UNCHANGED <<procState, termSent>>
           ELSE /\ procState' = [procState EXCEPT ![mcp_process] = Dead(mcp_process)]
                /\ termSent' = termSent \cup {mcp_process}
                /\ task' = [task EXCEPT ![t].pc = "c_pid", ![t].ci = 0, ![t].tm = 1]
    /\ Yield(t, task'[t])
    /\ UNCHANGED <<svc, constructed, elapsed, supVars, spawnCount, jobVars>>

\* os.killpg(os.getpgid(pid), ...) can raise for a live process: a process
\* adopted from the PID file need not belong to the user the service runs as
\* (PermissionError).  A child of this instance can be signalled.
KillpgMayRaise(pid) == pid = PriorPid

\* Lines 309-319: SIGTERM to the process group of mcp_pid when that pid passes
\* _is_process_running.  When the call raises, line 325 logs the error and the
\* cleanup goes on to the reset.
CleanupTerminatePid(t) ==
    /\ task[t].pc = "c_pid"
    /\ running = t
    /\ IF IsProcessRunning(mcp_pid)
         THEN \/ /\ termSent' = termSent \cup {mcp_pid}
                 /\ task' = [task EXCEPT ![t].pc = "c_gwait", ![t].ci = 1,
                                         ![t].tm = 1]
              \/ /\ KillpgMayRaise(mcp_pid)
                 /\ UNCHANGED termSent
                 /\ task' = [task EXCEPT ![t].pc = "c_reset", ![t].tm = 2]
         ELSE /\ UNCHANGED termSent
              /\ task' = [task EXCEPT ![t].pc = "c_reset"]
    /\ Yield(t, task'[t])
    /\ UNCHANGED <<svc, constructed, elapsed, supVars, procState, spawnCount, jobVars>>

\* Lines 316-324: one second later; after CleanupWaits sleeps SIGKILL.
CleanupWaitPid(t) ==
    /\ task[t].pc = "c_gwait"
    /\ running = 0
    /\ IF ~IsProcessRunning(mcp_pid)
         THEN /\ task' = [task EXCEPT ![t].pc = "c_reset", ![t].ci = 0]
              /\ UNCHANGED <<procState, termSent>>
         ELSE IF task[t].ci < CleanupWaits
           THEN /\ task' = [task EXCEPT ![t].ci = @ + 1]
                /\ UNCHANGED <<procState, termSent>>
           ELSE /\ procState' = [procState EXCEPT ![mcp_pid] = Dead(mcp_pid)]
                /\ termSent' = termSent \cup {mcp_pid}
                /\ task' = [task EXCEPT ![t].pc = "c_reset", ![t].ci = 0]
    /\ Yield(t, task'[t])
    /\ UNCHANGED <<svc, constructed, elapsed, supVars, spawnCount, jobVars>>

\* Lines 329-330, and what the caller does next without awaiting:
\*   "spawn": _start_mcp goes on to Popen;
\*   "fail":  _start_mcp unlinks the PID file and returns False, and
\*            ensure_mcp_running leaves the lock with that result;
\*   "close": close() unlinks the PID file and returns.
CleanupReset(t) ==
    /\ task[t].pc = "c_reset"
    /\ running = t
    /\ mcp_process' = None
    /\ mcp_pid' = None
    /\ CASE task[t].ccont = "spawn" ->
              /\ task' = [task EXCEPT ![t].pc = "s_spawn", ![t].ccont = "none"]
              /\ UNCHANGED <<pidFile, lock_owner>>
         [] task[t].ccont = "fail" ->
              /\ task' = [task EXCEPT ![t] = EnsureReturn(task[t], FALSE)]
              /\ UnlinkPidFile
              /\ lock_owner' = 0
         [] OTHER ->
              /\ task' = [task EXCEPT ![t].pc = "done", ![t].ccont = "none"]
              /\ UnlinkPidFile
              /\ UNCHANGED lock_owner
    /\ Yield(t, task'[t])
    /\ UNCHANGED <<svc, constructed, elapsed, mcp_session, hcChecked, lock_waiters,
                   procState, termSent, spawnCount, jobVars>>

\* ------------------------------------------------------------------ close
CallClose(t) ==
    /\ constructed
    /\ NextFree(t)
    /\ running = 0
    /\ task' = [u \in TaskIds |->
                  IF u = t
                  THEN [IdleTask EXCEPT !.kind = "close", !.pc = "c_begin",
                                        !.ccont = "close"]
                  ELSE IF Quiet(u) THEN task[u]
                  ELSE [task[u] EXCEPT !.solo = FALSE]]
    /\ running' = t
    /\ UNCHANGED <<svc, constructed, elapsed, supVars, procState, termSent, spawnCount,
                   jobVars>>

\* ------------------------------------------------------------- _start_mcp
\* Line 279 (MiniMax) / 259 (BrightData): delay before the next readiness probe
\* after retry_count failed probes.
RECURSIVE Pow2(_)
Pow2(n) == IF n = 0 THEN 1 ELSE 2 * Pow2(n - 1)

Min(a, b) == IF a < b THEN a ELSE b

BackoffDelay(retry_count) == Min(retry_delay * Pow2(retry_count - 1), MaxBackoff)

\* Seconds slept by the readiness loop after retry_count failed probes.
RECURSIVE Elapsed(_)
Elapsed(retry_count) ==
    IF retry_count = 0 THEN 0
    ELSE Elapsed(retry_count - 1) + BackoffDelay(retry_count)

\* One readiness probe failed: except branch, retry_count += 1, sleep(delay).
ProbeFailed(tk) == [tk EXCEPT !.pc = "w_sleep", !.rc = @ + 1,
                              !.rem = BackoffDelay(tk.rc + 1)]

\* _start_mcp gives up: cleanup, unlink, return False.
StartFailed(tk) == [tk EXCEPT !.pc = "c_begin", !.ccont = "fail", !.rc = 0, !.sess = 0,
                              !.rem = 0]

\* Lines 221-238 (MiniMax) / 173-193 (BrightData): Popen, record the pid, write
\* the PID file, enter the readiness loop and send its first probe.
StartSpawn(t) ==
    /\ task[t].pc = "s_spawn"
    /\ running = t
    /\ \/ /\ spawnCount < MaxSpawn
          /\ LET p == spawnCount + 2 IN
               /\ spawnCount' = spawnCount + 1
               /\ procState' = [procState EXCEPT ![p] = "starting"]
               /\ mcp_process' = p
               /\ mcp_pid' = p
               /\ WritePidFile(p)
               /\ mcp_session' = IF svc = "brightdata" THEN p ELSE mcp_session
               /\ task' = [task EXCEPT ![t].pc = "w_probe", ![t].rc = 0,
                                       ![t].sess = IF svc = "brightdata" THEN p ELSE 0,
                                       ![t].sp = @ + 1, ![t].newpid = p]
       \/ /\ task' = [task EXCEPT                                  \* Popen raises
                         ![t] = StartFailed([task[t] EXCEPT !.sp = @ + 1])]
          /\ UNCHANGED <<spawnCount, procState, mcp_process, mcp_pid, pidFile,
                   mcp_session>>
    /\ Yield(t, task'[t])
    /\ UNCHANGED <<svc, constructed, elapsed, hcChecked, lock_owner, lock_waiters,
                   termSent, jobVars>>

\* MiniMax _wait_for_mcp_ready lines 262-281: the answer to GET /status arrives.
WaitReadyProbe(t) ==
    /\ svc = "minimax"
    /\ task[t].pc = "w_probe"
    /\ running = 0
    /\ IF CheckMcpHealth
         THEN /\ task' = [task EXCEPT ![t] = EnsureReturn(task[t], TRUE)]
              /\ lock_owner' = 0
         ELSE IF mcp_process /= None /\ ~PollIsNone(mcp_process)
           THEN /\ task' = [task EXCEPT ![t] = StartFailed(task[t])]
                /\ UNCHANGED lock_owner
           ELSE /\ task' = [task EXCEPT ![t] = ProbeFailed(task[t])]
                /\ UNCHANGED lock_owner
    /\ Yield(t, task'[t])
    /\ UNCHANGED <<svc, constructed, elapsed, mcp_pid, mcp_process, mcp_session, hcChecked,
                   pidFile, lock_waiters, procState, termSent, spawnCount,
                   jobVars>>

\* Bound: the answers with a status other than 200 one readiness loop gets.
MaxBadAnswers == 2

\* MiniMax _wait_for_mcp_ready lines 263-270: a worker that is starting answers
\* GET /status with a status other than 200.  No exception is raised, so the
\* except branch (271-281) with its poll, its count and its sleep is not
\* entered: the loop tests the time and sends the next probe at once.  reqs
\* counts these answers.
WaitReadyNot200(t) ==
    /\ svc = "minimax"
    /\ task[t].pc = "w_probe"
    /\ running = 0
    /\ ~CheckMcpHealth
    /\ \E p \in Pids : procState[p] = "starting"
    /\ task[t].reqs < MaxBadAnswers
    /\ task' = [task EXCEPT ![t].reqs = @ + 1]
    /\ running' = 0
    /\ UNCHANGED <<svc, constructed, elapsed, supVars, procState, termSent, spawnCount,
                   jobVars>>

\* BrightData _connect_to_mcp lines 238-249: mcp_session.initialize() returned
\* or raised; on success ping() is sent on whatever self.mcp_session is now.
ConnectInitialized(t) ==
    /\ svc = "brightdata"
    /\ task[t].pc = "w_probe"
    /\ running = 0
    /\ task' = [task EXCEPT ![t] =
                  IF PingOk(task[t].sess) /\ mcp_session /= None
                    THEN [task[t] EXCEPT !.pc = "w_ping", !.sess = mcp_session]
                    ELSE ProbeFailed(task[t])]
    /\ Yield(t, task'[t])
    /\ UNCHANGED <<svc, constructed, elapsed, supVars, procState, termSent, spawnCount,
                   jobVars>>

\* BrightData _connect_to_mcp lines 249-252: the answer to ping() arrives.
ConnectPinged(t) ==
    /\ svc = "brightdata"
    /\ task[t].pc = "w_ping"
    /\ running = 0
    /\ IF PingOk(task[t].sess)
         THEN /\ task' = [task EXCEPT ![t] = EnsureReturn(task[t], TRUE)]
              /\ lock_owner' = 0
         ELSE /\ task' = [task EXCEPT ![t] = ProbeFailed(task[t])]
              /\ UNCHANGED lock_owner
    /\ Yield(t, task'[t])
    /\ UNCHANGED <<svc, constructed, elapsed, mcp_pid, mcp_process, mcp_session, hcChecked,
                   pidFile, lock_waiters, procState, termSent, spawnCount,
                   jobVars>>

\* The backoff sleep ends: the loop condition is tested again (line 261 / 221)
\* and the next probe is sent.  BrightData first polls the child (224) and
\* builds a new client and session (229-235).
WaitReadySleep(t) ==
    /\ task[t].pc = "w_sleep"
    /\ running = 0
    /\ IF Elapsed(task[t].rc) >= startup_timeout
         THEN /\ task' = [task EXCEPT ![t] = StartFailed(task[t])]
              /\ UNCHANGED mcp_session
         ELSE IF svc = "minimax"
           THEN /\ task' = [task EXCEPT ![t].pc = "w_probe", ![t].rem = 0]
                /\ UNCHANGED mcp_session
           ELSE IF mcp_process = None          \* None.poll() raises: except branch
             THEN /\ task' = [task EXCEPT ![t] = ProbeFailed(task[t])]
                  /\ UNCHANGED mcp_session
             ELSE IF ~PollIsNone(mcp_process)
               THEN /\ task' = [task EXCEPT ![t] = StartFailed(task[t])]
                    /\ UNCHANGED mcp_session
               ELSE /\ mcp_session' = mcp_process
                    /\ task' = [task EXCEPT ![t].pc = "w_probe", ![t].rem = 0,
                                            ![t].sess = mcp_process]
    /\ Yield(t, task'[t])
    /\ UNCHANGED <<svc, constructed, elapsed, mcp_pid, mcp_process, hcChecked, pidFile,
                   lock_owner, lock_waiters, procState, termSent, spawnCount,
                   jobVars>>

\* ------------------------------------------------------------- video jobs
JobStatuses == {"processing", "completed", "failed"}

TerminalStatuses == {"completed", "failed"}

\* Line 534: status = data.get("status", "processing") is whatever string the
\* worker sent; VideoStatus.status is a plain str (41).  "other" stands for any
\* value that is none of the three.
WorkerStatuses == JobStatuses \cup {"other"}

VideoStatus(st, pr, er) == [status |-> st, progress |-> pr, error |-> er]

\* Lines 410-414: the record generate_video stores.
QueuedVideoStatus == VideoStatus("queued", "none", "none")

InitialVideoStatus == VideoStatus("processing", "zero", "none")

\* Lines 403-407: the VideoGenerationResponse generate_video returns.
VideoGenerationResponse == VideoStatus("processing", "none", "none")

\* Line 417: asyncio.create_task(self._monitor_video_generation(video_id)); the
\* new task has not run yet.
NewMonitor(v) == [IdleTask EXCEPT !.kind = "monitor", !.pc = "m_wait", !.vid = v]

\* What comes back from a request to the worker's port: an HTTP status when a
\* worker answers ("4xx" is a 4xx other than 429; "garbled" is a 200 whose body
\* cannot be used), and otherwise
\* httpx.RequestError (connection refused, timeout).
HttpOutcomes ==
    IF CheckMcpHealth THEN {"200", "4xx", "429", "5xx", "error", "garbled"}
    ELSE {"error"}

\* The answers that carry an HTTP error status: a 4xx other than 429, 429, 5xx.
HttpErrors == {"4xx", "429", "5xx"}

\* The same delay before every retry.
FixedDelay(attempt) == retry_delay

\* Lines 389, 426, 514, 564: delay = self.retry_delay * (2 ** attempt).
RetryDelay(attempt) == retry_delay * Pow2(attempt)

\* The task goes into the backoff sleep before its next attempt.
Backoff(tk, pc, o) ==
    [tk EXCEPT !.pc = pc, !.slept = Append(@, [d |-> RetryDelay(tk.att), why |-> o])]

\* A gateway call ends: its loop measurements are dropped.
Ended(tk) == [tk EXCEPT !.att = 0, !.reqs = 0, !.slept = <<>>, !.waits = 0]

\* Every failure is retried while attempts are left.
RetryableAny(o, attempt) == attempt < max_retries - 1

\* Lines 388 and 425 (generate_video), 513 and 563 (get_video_status).
Retryable(o, attempt) == attempt < max_retries - 1 /\ o \in {"5xx", "error"}

InCache(v) == video_status_cache[v] /= NoRec

\* How get_video_status hands its result to its caller.
StatusReturn(tk, rec) ==
    IF tk.kind = "monitor"
      THEN [Ended(tk) EXCEPT !.pc = "m_got", !.out = rec]
      ELSE IF tk.kind = "result"
        THEN [Ended(tk) EXCEPT !.pc = "r_got", !.out = rec]
        ELSE [Ended(tk) EXCEPT !.pc = "done", !.out = rec]

\* A request handler calls generate_video(); the slot after it is kept for the
\* monitor task it may create.
CallGenerate(t) ==
    /\ svc = "minimax"
    /\ constructed
    /\ NextFree(t)
    /\ t < NTasks
    /\ running = 0
    /\ task' = [task EXCEPT ![t] = [IdleTask EXCEPT !.kind = "gen", !.pc = "e_begin"],
                            ![t + 1] = [IdleTask EXCEPT !.kind = "reserved"]]
    /\ running' = t
    /\ UNCHANGED <<svc, constructed, elapsed, supVars, procState, termSent, spawnCount,
                   jobVars>>

\* A failed attempt of generate_video, with a record of the failure left in the
\* job table.
GenerateFailureRecorded(t, o) ==
    /\ task' = [task EXCEPT ![t] =
                  IF Retryable(o, task[t].att)
                    THEN Backoff(@, "g_sleep", o)
                    ELSE [Ended(@) EXCEPT !.pc = "done",
                                          !.out = VideoStatus("raised", "none", o)]]
    /\ video_status_cache' =
           [v \in VideoIds |-> IF Retryable(o, task[t].att) THEN video_status_cache[v]
                               ELSE VideoStatus("failed", "none", o)]
    /\ UNCHANGED monitors

\* Lines 384-394 and 421-435: an attempt of generate_video that did not get a
\* usable 200 answer sleeps and goes on (388-392, 425-429) or raises (394, 431,
\* 435); neither path touches video_status_cache or creates a task.
GenerateFailure(t, o) ==
    /\ task' = [task EXCEPT ![t] =
                  IF Retryable(o, task[t].att)
                    THEN Backoff(@, "g_sleep", o)
                    ELSE [Ended(@) EXCEPT !.pc = "done",
                                          !.out = VideoStatus("raised", "none", o)]]
    /\ UNCHANGED <<video_status_cache, monitors>>

\* Lines 378-435: the answer to POST /generate arrives.
GenerateResponse(t) ==
    /\ task[t].kind = "gen"
    /\ task[t].pc = "g_post"
    /\ running = 0
    /\ \E o \in HttpOutcomes :
          IF o = "200"
            THEN \E v \in VideoIds :
                   /\ video_status_cache' =
                          [video_status_cache EXCEPT ![v] = InitialVideoStatus]
                   /\ monitors' = [monitors EXCEPT ![v] = @ + 1]
                   /\ task' = [task EXCEPT
                                 ![t] = [Ended(@) EXCEPT !.pc = "done", !.vid = v,
                                                  !.out = VideoGenerationResponse],
                                 ![t + 1] = NewMonitor(v)]
            ELSE GenerateFailure(t, o)
    /\ running' = 0
    /\ UNCHANGED <<svc, constructed, elapsed, supVars, procState, termSent, spawnCount,
                   lastCached>>

\* Lines 389-392 / 426-429: the retry delay ends, the next attempt is sent.
GenerateSleep(t) ==
    /\ task[t].pc = "g_sleep"
    /\ running = 0
    /\ task' = [task EXCEPT ![t].pc = "g_post", ![t].att = @ + 1,
                            ![t].reqs = @ + 1]
    /\ running' = 0
    /\ UNCHANGED <<svc, constructed, elapsed, supVars, procState, termSent, spawnCount,
                   jobVars>>

\* A request handler calls get_video_status(video_id) while the cache holds no
\* terminal record for it: lines 487-496, up to the call of ensure_mcp_running.
CallStatus(t, v) ==
    /\ svc = "minimax"
    /\ constructed
    /\ NextFree(t)
    /\ running = 0
    /\ video_status_cache[v].status \notin TerminalStatuses
    /\ task' = [task EXCEPT ![t] = [IdleTask EXCEPT !.kind = "status", !.vid = v,
                                                   !.pc = "e_begin"]]
    /\ running' = t
    /\ UNCHANGED <<svc, constructed, elapsed, supVars, procState, termSent, spawnCount,
                   jobVars>>

\* A request handler calls get_video_status(video_id) while the cached status
\* is terminal: lines 487-493, the cached record is returned at once.
StatusCached(v) ==
    /\ svc = "minimax"
    /\ constructed
    /\ running = 0
    /\ video_status_cache[v].status \in TerminalStatuses
    /\ lastCached' = [lastCached EXCEPT ![v] = video_status_cache[v]]
    /\ UNCHANGED <<svc, constructed, elapsed, supVars, procState, termSent, spawnCount,
                   task, running, video_status_cache, monitors>>

\* Lines 503-601: the answer to GET /status/{video_id} arrives.
StatusResponse(t) ==
    /\ task[t].pc = "q_get"
    /\ running = 0
    /\ LET v == task[t].vid IN
       \E o \in HttpOutcomes :
          CASE o = "200" ->
                 \E st \in WorkerStatuses, pr \in {"zero", "some"} :
                    LET rec == VideoStatus(st, pr, IF st = "failed" THEN "worker" ELSE "none") IN
                      /\ video_status_cache' = [video_status_cache EXCEPT ![v] = rec]
                      /\ task' = [task EXCEPT ![t] = StatusReturn(@, rec)]
            [] o /= "200" /\ Retryable(o, task[t].att) ->
                 /\ task' = [task EXCEPT ![t] = Backoff(@, "q_sleep", o)]
                 /\ UNCHANGED video_status_cache
            [] o \in HttpErrors /\ ~Retryable(o, task[t].att) ->
                 /\ video_status_cache' =
                        IF InCache(v)
                          THEN [video_status_cache EXCEPT ![v].status = "failed",
                                                          ![v].error = o]
                          ELSE video_status_cache
                 /\ task' = [task EXCEPT
                               ![t] = StatusReturn(@, VideoStatus("failed", "none", o))]
            [] OTHER ->
                 /\ video_status_cache' =
                        IF InCache(v) /\ video_status_cache[v].status /= "completed"
                          THEN [video_status_cache EXCEPT ![v].error = o]
                          ELSE video_status_cache
                 /\ task' = [task EXCEPT ![t] =
                               StatusReturn(@, IF InCache(v) THEN video_status_cache'[v]
                                               ELSE VideoStatus("failed", "none", o))]
    /\ Yield(t, task'[t])
    /\ UNCHANGED <<svc, constructed, elapsed, supVars, procState, termSent, spawnCount,
                   monitors, lastCached>>

\* Lines 514-517 / 564-567: the retry delay ends, the next attempt is sent.
StatusSleep(t) ==
    /\ task[t].pc = "q_sleep"
    /\ running = 0
    /\ task' = [task EXCEPT ![t].pc = "q_get", ![t].att = @ + 1,
                            ![t].reqs = @ + 1]
    /\ running' = 0
    /\ UNCHANGED <<svc, constructed, elapsed, supVars, procState, termSent, spawnCount,
                   jobVars>>

\* _monitor_video_generation lines 446-453: a sleep of the monitor ends (the
\* initial one, or the one that closes an iteration); the loop goes on with
\* get_video_status (487-496) or is exhausted.
MonitorWake(t) ==
    /\ task[t].pc = "m_wait"
    /\ running = 0
    /\ task' = [task EXCEPT ![t] =
                  IF task[t].chk >= max_checks THEN [@ EXCEPT !.pc = "m_end"]
                  ELSE IF video_status_cache[task[t].vid].status \in TerminalStatuses
                    THEN StatusReturn(@, video_status_cache[task[t].vid])
                    ELSE [@ EXCEPT !.pc = "e_begin"]]
    /\ running' = t
    /\ UNCHANGED <<svc, constructed, elapsed, supVars, procState, termSent, spawnCount,
                   jobVars>>

\* Lines 455-464: get_video_status returned to the monitor.
MonitorGot(t) ==
    /\ task[t].pc = "m_got"
    /\ running = t
    /\ LET v == task[t].vid IN
       IF task[t].out.status \in TerminalStatuses
         THEN /\ task' = [task EXCEPT ![t].pc = "m_end", ![t].out = NoRec]
              /\ UNCHANGED video_status_cache
         ELSE IF ~InCache(v)                   \* KeyError: except clause
           THEN /\ task' = [task EXCEPT ![t].pc = "m_except", ![t].out = NoRec]
                /\ UNCHANGED video_status_cache
           ELSE /\ video_status_cache' =
                      IF task[t].out.progress /= "none"
                        THEN [video_status_cache EXCEPT ![v].progress = task[t].out.progress]
                        ELSE video_status_cache
                /\ task' = [task EXCEPT ![t].pc = "m_wait", ![t].chk = @ + 1,
                                        ![t].out = NoRec]
    /\ Yield(t, task'[t])
    /\ UNCHANGED <<svc, constructed, elapsed, supVars, procState, termSent, spawnCount,
                   monitors, lastCached>>

\* The monitor ends and leaves the record as it is.
MonitorEndKeeps(t) ==
    /\ task[t].pc = "m_end"
    /\ running = t
    /\ task' = [task EXCEPT ![t].pc = "done", ![t].chk = 0]
    /\ running' = 0
    /\ UNCHANGED <<svc, constructed, elapsed, supVars, procState, termSent, spawnCount,
                   jobVars>>

\* Lines 466-470: after the loop a record still 'processing' is marked failed.
MonitorEnd(t) ==
    /\ task[t].pc = "m_end"
    /\ running = t
    /\ LET v == task[t].vid IN
       video_status_cache' =
           IF InCache(v) /\ video_status_cache[v].status = "processing"
             THEN [video_status_cache EXCEPT ![v].status = "failed", ![v].error = "timeout"]
             ELSE video_status_cache
    /\ task' = [task EXCEPT ![t].pc = "done", ![t].chk = 0]
    /\ running' = 0
    /\ UNCHANGED <<svc, constructed, elapsed, supVars, procState, termSent, spawnCount,
                   monitors, lastCached>>

\* An exception in one monitor marks every job of the table failed.
MonitorExceptAll(t) ==
    /\ task[t].pc = "m_except"
    /\ running = t
    /\ video_status_cache' =
           [v \in DOMAIN video_status_cache |->
               IF InCache(v)
                 THEN [video_status_cache[v] EXCEPT !.status = "failed", !.error = "start"]
                 ELSE video_status_cache[v]]
    /\ task' = [task EXCEPT ![t].pc = "done", ![t].chk = 0, ![t].out = NoRec]
    /\ running' = 0
    /\ UNCHANGED <<svc, constructed, elapsed, supVars, procState, termSent, spawnCount,
                   monitors, lastCached>>

\* Lines 471-475: an exception reached the monitor.
MonitorExcept(t) ==
    /\ task[t].pc = "m_except"
    /\ running = t
    /\ LET v == task[t].vid IN
       video_status_cache' =
           IF InCache(v)
             THEN [video_status_cache EXCEPT ![v].status = "failed", ![v].error = "start"]
             ELSE video_status_cache
    /\ task' = [task EXCEPT ![t].pc = "done", ![t].chk = 0, ![t].out = NoRec]
    /\ running' = 0
    /\ UNCHANGED <<svc, constructed, elapsed, supVars, procState, termSent, spawnCount,
                   monitors, lastCached>>

\* The monitor task t is cancelled while it is suspended in an await (446, 464,
\* or an await inside get_video_status and what it calls).  CancelledError is
\* raised there; it is a BaseException, so neither 'except Exception' of 471,
\* 584 or 248 nor 'except httpx.RequestError' catches it: the task ends at once.
\* On the way out 'async with self._startup_lock' (194) releases the lock when
\* the task holds it, and a task waiting for the lock leaves the queue.  Nothing
\* else is undone: a child spawned by an interrupted _start_mcp stays.
Cancelled == [status |-> "cancelled", progress |-> "none", error |-> "none"]

CancelMonitor(t) ==
    /\ task[t].kind = "monitor"
    /\ task[t].pc \in SuspendedPcs \ {"idle", "done"}
    /\ running = 0
    /\ task' = [task EXCEPT ![t] = [IdleTask EXCEPT !.kind = "monitor", !.pc = "done",
                                                   !.vid = task[t].vid,
                                                   !.out = Cancelled]]
    /\ lock_owner' = IF lock_owner = t THEN 0 ELSE lock_owner
    /\ lock_waiters' = SelectSeq(lock_waiters, LAMBDA u : u /= t)
    /\ running' = 0
    /\ UNCHANGED <<svc, constructed, elapsed, mcp_pid, mcp_process, mcp_session, hcChecked,
                   pidFile, procState, termSent, spawnCount, jobVars>>

\* ------------------------------------------------------------------- Next
Env ==
    \/ \E p \in Pids : WorkerReady(p)
    \/ \E p \in Pids : WorkerExits(p)
    \/ \E p \in Pids : WorkerCrashes(p)
    \/ \E p \in Pids : WorkerHangs(p)

Supervisor(t) ==
    \/ EnsureBegin(t)
    \/ EnsureHealthPeriodic(t)
    \/ EnsureCheckHeld(t)
    \/ EnsureHealthHeld(t)
    \/ EnsurePing(t)
    \/ EnsureAcquire(t)
    \/ EnsureLockWake(t)
    \/ EnsureDoubleCheck(t)
    \/ EnsureHealthLocked(t)
    \/ CleanupBegin(t)
    \/ CleanupClientClosed(t)
    \/ CleanupTerminateChild(t)
    \/ CleanupWaitChild(t)
    \/ CleanupTerminatePid(t)
    \/ CleanupWaitPid(t)
    \/ CleanupReset(t)
    \/ StartSpawn(t)
    \/ WaitReadyProbe(t)
    \/ ConnectInitialized(t)
    \/ ConnectPinged(t)
    \/ WaitReadySleep(t)

Next ==
    \/ RestoreFromPidFile
    \/ \E t \in TaskIds : CallEnsure(t)
    \/ \E t \in TaskIds : CallClose(t)
    \/ \E t \in TaskIds : Supervisor(t)
    \/ Env

Spec == Init /\ [][Next]_vars

\* -------------------------------------------- the MiniMax service with jobs
\* A MiniMax instance constructed without a PID file, used through
\* generate_video and get_video_status.
InitJob ==
    /\ svc = "minimax"
    /\ constructed = TRUE
    /\ elapsed = min_request_interval
    /\ mcp_pid = None
    /\ mcp_process = None
    /\ mcp_session = None
    /\ hcChecked = FALSE
    /\ pidFile = NoFile
    /\ procState = [p \in Pids |-> "none"]
    /\ lock_owner = 0
    /\ lock_waiters = <<>>
    /\ termSent = {}
    /\ spawnCount = 0
    /\ task = [t \in TaskIds |-> IdleTask]
    /\ running = 0
    /\ video_status_cache = [v \in VideoIds |-> NoRec]
    /\ monitors = [v \in VideoIds |-> 0]
    /\ lastCached = [v \in VideoIds |-> NoRec]

\* The steps of ensure_mcp_running a MiniMax instance takes.  Such an instance
\* holds no pid but that of its own Popen child, which the first stage of the
\* cleanup has ended: the wait of the second stage is never entered.
SupervisorMM(t) ==
    \/ EnsureBegin(t)
    \/ EnsureHealthPeriodic(t)
    \/ EnsureCheckHeld(t)
    \/ EnsureHealthHeld(t)
    \/ EnsureAcquire(t)
    \/ EnsureLockWake(t)
    \/ EnsureDoubleCheck(t)
    \/ EnsureHealthLocked(t)
    \/ CleanupBegin(t)
    \/ CleanupTerminateChild(t)
    \/ CleanupWaitChild(t)
    \/ CleanupTerminatePid(t)
    \/ CleanupReset(t)
    \/ StartSpawn(t)
    \/ WaitReadyProbe(t)
    \/ WaitReadySleep(t)

Job(t) ==
    \/ GenerateResponse(t)
    \/ GenerateSleep(t)
    \/ StatusResponse(t)
    \/ StatusSleep(t)
    \/ MonitorWake(t)
    \/ MonitorGot(t)
    \/ MonitorEnd(t)
    \/ MonitorExcept(t)

NextJob ==
    \/ \E t \in TaskIds : CallGenerate(t)
    \/ \E t \in TaskIds, v \in VideoIds : CallStatus(t, v)
    \/ \E v \in VideoIds : StatusCached(v)
    \/ \E t \in TaskIds : Job(t)
    \/ \E t \in TaskIds : SupervisorMM(t)
    \/ \E p \in Pids : WorkerReady(p)
    \/ \E p \in Pids : WorkerExits(p)
    \/ \E p \in Pids : WorkerCrashes(p)

SpecJob == InitJob /\ [][NextJob]_vars

\* ------------------------------------------------- a second submission
\* The MiniMax instance right after its first generate_video call returned:
\* the worker it started (pid 2) answers, the record of video 1 is in the
\* cache and the monitor task of video 1 (slot 1) has been created.  The
\* handler that made the call is gone and holds no slot.
InitResubmit ==
    /\ svc = "minimax"
    /\ constructed = TRUE
    /\ elapsed = min_request_interval
    /\ mcp_pid = 2
    /\ mcp_process = 2
    /\ mcp_session = None
    /\ hcChecked = FALSE
    /\ pidFile = 2
    /\ procState = [p \in Pids |-> IF p = 2 THEN "up" ELSE "none"]
    /\ lock_owner = 0
    /\ lock_waiters = <<>>
    /\ termSent = {}
    /\ spawnCount = 1
    /\ task = [t \in TaskIds |-> IF t = 1 THEN NewMonitor(1) ELSE IdleTask]
    /\ running = 0
    /\ video_status_cache = [v \in VideoIds |-> InitialVideoStatus]
    /\ monitors = [v \in VideoIds |-> 1]
    /\ lastCached = [v \in VideoIds |-> NoRec]

\* The callers only submit videos; the monitors do the status queries.
NextResubmit ==
    \/ \E t \in TaskIds : CallGenerate(t)
    \/ \E t \in TaskIds : Job(t)
    \/ \E t \in TaskIds : SupervisorMM(t)
    \/ \E p \in Pids : WorkerReady(p)
    \/ \E p \in Pids : WorkerExits(p)
    \/ \E p \in Pids : WorkerCrashes(p)
    \/ \E p \in Pids : WorkerHangs(p)

SpecResubmit == InitResubmit /\ [][NextResubmit]_vars

\* ------------------------------------------------- get_completed_video
\* Lines 615-624: None unless the status is 'completed', and then the details
\* of the video.
NoResult == [status |-> "None", progress |-> "none", error |-> "none"]

VideoDetails == [status |-> "details", progress |-> "none", error |-> "none"]

\* Every call returns the details.
AlwaysDetails(status) == VideoDetails

CompletedVideo(status) ==
    IF status.status /= "completed" THEN NoResult ELSE VideoDetails

\* A caller starts get_completed_video(video_id): line 613 calls
\* get_video_status, which answers from the cache when the record is terminal
\* (487-493) and otherwise goes on to ensure_mcp_running (496).
CallResult(t, v) ==
    /\ svc = "minimax"
    /\ constructed
    /\ NextFree(t)
    /\ running = 0
    /\ task' = [task EXCEPT ![t] =
                  IF video_status_cache[v].status \in TerminalStatuses
                    THEN [IdleTask EXCEPT !.kind = "result", !.vid = v, !.pc = "r_got",
                                          !.out = video_status_cache[v]]
                    ELSE [IdleTask EXCEPT !.kind = "result", !.vid = v,
                                          !.pc = "e_begin"]]
    /\ running' = t
    /\ UNCHANGED <<svc, constructed, elapsed, supVars, procState, termSent,
                   spawnCount, jobVars>>

\* Lines 615-624: get_video_status returned to get_completed_video.
ResultReturn(t) ==
    /\ task[t].pc = "r_got"
    /\ running = t
    /\ task' = [task EXCEPT ![t].pc = "done", ![t].out = CompletedVideo(@)]
    /\ running' = 0
    /\ UNCHANGED <<svc, constructed, elapsed, supVars, procState, termSent,
                   spawnCount, jobVars>>

\* A MiniMax instance whose callers submit videos and ask for the results.
NextResult ==
    \/ \E t \in TaskIds : CallGenerate(t)
    \/ \E t \in TaskIds, v \in VideoIds : CallResult(t, v)
    \/ \E t \in TaskIds : ResultReturn(t)
    \/ \E t \in TaskIds : Job(t)
    \/ \E t \in TaskIds : SupervisorMM(t)
    \/ \E p \in Pids : WorkerReady(p)
    \/ \E p \in Pids : WorkerExits(p)
    \/ \E p \in Pids : WorkerCrashes(p)

SpecResult == InitJob /\ [][NextResult]_vars

\* ------------------------------------- BrightData scrape_instagram_user
\* What the call returns when the tool call succeeded / the call raised.
GatewayOk == [status |-> "ok", progress |-> "none", error |-> "none"]

GatewayRaised(o) == [status |-> "raised", progress |-> "none", error |-> o]

\* What comes back from mcp_session.call_tool on the session built on worker
\* p: a result ("200"), a result json.loads cannot parse ("garbled"), or an
\* exception; a worker that does not answer gives an exception.
ToolOutcomes(p) == IF Responsive(p) THEN {"200", "error", "garbled"} ELSE {"error"}

\* Lines 392-407: every exception of an attempt is retried while attempts are
\* left, after a sleep of retry_delay * 2 ** attempt; the last one raises.
ScrapeFailure(tk, o) ==
    IF tk.att < max_retries - 1
      THEN Backoff(tk, "s_sleep", o)
      ELSE [Ended(tk) EXCEPT !.pc = "done", !.out = GatewayRaised(o)]

\* Bound: scrape_instagram_user calls, or _make_request calls, in flight at a
\* time.
MaxCalls == 1

\* The calls of kind k that have begun and not returned.
InFlight(k) == {u \in TaskIds : task[u].kind = k /\ task[u].pc /= "done"}

\* A request handler calls scrape_instagram_user(): lines 336-337, up to the
\* call of ensure_mcp_running.
CallScrape(t) ==
    /\ svc = "brightdata"
    /\ constructed
    /\ NextFree(t)
    /\ Cardinality(InFlight("scrape")) < MaxCalls
    /\ running = 0
    /\ task' = [task EXCEPT ![t] = [IdleTask EXCEPT !.kind = "scrape", !.pc = "e_begin"]]
    /\ running' = t
    /\ UNCHANGED <<svc, constructed, elapsed, supVars, procState, termSent,
                   spawnCount, jobVars>>

\* Line 377: self.mcp_session.call_tool(...).  Without a session the attribute
\* access raises and no request is made.
ScrapeTry(t) ==
    /\ task[t].pc = "s_try"
    /\ running = t
    /\ task' = [task EXCEPT ![t] =
                  IF mcp_session = None
                    THEN ScrapeFailure(@, "nosession")
                    ELSE [@ EXCEPT !.pc = "s_call", !.reqs = @ + 1,
                                   !.sess = mcp_session]]
    /\ Yield(t, task'[t])
    /\ UNCHANGED <<svc, constructed, elapsed, supVars, procState, termSent,
                   spawnCount, jobVars>>

\* Lines 377-407: the tool call returns or raises.
ScrapeResponse(t) ==
    /\ task[t].pc = "s_call"
    /\ running = 0
    /\ \E o \in ToolOutcomes(task[t].sess) :
          task' = [task EXCEPT ![t] =
                     IF o = "200"
                       THEN [Ended(@) EXCEPT !.pc = "done", !.sess = 0, !.out = GatewayOk]
                       ELSE ScrapeFailure([@ EXCEPT !.sess = 0], o)]
    /\ running' = 0
    /\ UNCHANGED <<svc, constructed, elapsed, supVars, procState, termSent,
                   spawnCount, jobVars>>

\* Lines 399-405: the retry delay ends; ensure_mcp_running is called before
\* the next attempt.
ScrapeSleep(t) ==
    /\ task[t].pc = "s_sleep"
    /\ running = 0
    /\ task' = [task EXCEPT ![t].pc = "e_begin", ![t].att = @ + 1]
    /\ running' = t
    /\ UNCHANGED <<svc, constructed, elapsed, supVars, procState, termSent,
                   spawnCount, jobVars>>

\* ------------------------------------------- ApifyService._make_request
ApifyOutcomes == {"200", "4xx", "429", "5xx", "error", "garbled"}

\* A retryable failure is retried whatever the attempt.
ApifyRetryAlways(o, attempt) == o \in {"429", "5xx", "error"}

\* Lines 127-128 (HTTP 429 or 5xx) and 138-141 (RequestError, TimeoutError).
ApifyRetryable(o, attempt) ==
    attempt < max_retries - 1 /\ o \in {"429", "5xx", "error"}

\* _enforce_rate_limit, lines 57-65, at the top of an attempt (96): when less
\* than min_request_interval has passed since last_request_time the caller
\* sleeps for the remainder; otherwise it sets last_request_time to now and
\* the request is sent (98-113).
ApifyAttempt(t, tk) ==
    IF elapsed < min_request_interval
      THEN /\ task' = [task EXCEPT ![t] =
                         [tk EXCEPT !.pc = "a_wait",
                                    !.rem = min_request_interval - elapsed,
                                    !.waits = @ + 1]]
           /\ UNCHANGED elapsed
      ELSE /\ task' = [task EXCEPT ![t] = [tk EXCEPT !.pc = "a_req", !.reqs = @ + 1]]
           /\ elapsed' = 0

\* A caller starts _make_request().
CallApify(t) ==
    /\ svc = "apify"
    /\ constructed
    /\ NextFree(t)
    /\ running = 0
    /\ ApifyAttempt(t, [IdleTask EXCEPT !.kind = "apify"])
    /\ running' = 0
    /\ UNCHANGED <<svc, constructed, supVars, procState, termSent, spawnCount,
                   jobVars>>

\* Lines 63-65: the rate-limit wait ends and the request is sent.
ApifyRateWake(t) ==
    /\ task[t].pc = "a_wait"
    /\ task[t].rem = 0
    /\ running = 0
    /\ elapsed' = 0
    /\ task' = [task EXCEPT ![t].pc = "a_req", ![t].reqs = @ + 1]
    /\ running' = 0
    /\ UNCHANGED <<svc, constructed, supVars, procState, termSent, spawnCount,
                   jobVars>>

\* Lines 118-148: the answer arrives.  raise_for_status turns an error status
\* into HTTPStatusError: 429 and 5xx are retried while attempts are left, any
\* other status raises at once (136); a request error is retried likewise.  A
\* body that response.json() cannot parse raises out of the call.
ApifyResponse(t) ==
    /\ task[t].pc = "a_req"
    /\ running = 0
    /\ \E o \in ApifyOutcomes :
          task' = [task EXCEPT ![t] =
                     IF o = "200" THEN [Ended(@) EXCEPT !.pc = "done", !.out = GatewayOk]
                     ELSE IF ApifyRetryable(o, task[t].att)
                       THEN [Backoff(@, "a_sleep", o) EXCEPT
                                !.rem = RetryDelay(task[t].att)]
                       ELSE [Ended(@) EXCEPT !.pc = "done", !.out = GatewayRaised(o)]]
    /\ running' = 0
    /\ UNCHANGED <<svc, constructed, elapsed, supVars, procState, termSent,
                   spawnCount, jobVars>>

\* Lines 130-133 / 143-146: the backoff ends and the next attempt begins.
ApifySleep(t) ==
    /\ task[t].pc = "a_sleep"
    /\ task[t].rem = 0
    /\ running = 0
    /\ ApifyAttempt(t, [task[t] EXCEPT !.att = @ + 1])
    /\ running' = 0
    /\ UNCHANGED <<svc, constructed, supVars, procState, termSent, spawnCount,
                   jobVars>>

\* ------------------------------------------------ the three gateways
\* One freshly constructed service instance of one of the three classes, used
\* through its gateway calls.
InitGateway ==
    /\ svc \in {"minimax", "brightdata", "apify"}
    /\ constructed = TRUE
    /\ elapsed = min_request_interval
    /\ mcp_pid = None
    /\ mcp_process = None
    /\ mcp_session = None
    /\ hcChecked = FALSE
    /\ pidFile = NoFile
    /\ procState = [p \in Pids |-> "none"]
    /\ lock_owner = 0
    /\ lock_waiters = <<>>
    /\ termSent = {}
    /\ spawnCount = 0
    /\ task = [t \in TaskIds |-> IdleTask]
    /\ running = 0
    /\ video_status_cache = [v \in VideoIds |-> NoRec]
    /\ monitors = [v \in VideoIds |-> 0]
    /\ lastCached = [v \in VideoIds |-> NoRec]

Scrape(t) ==
    \/ ScrapeTry(t)
    \/ ScrapeResponse(t)
    \/ ScrapeSleep(t)

\* One second passes: the sleeps of _make_request callers get shorter and the
\* last request gets older.  A sleep may end late.
ClockTick ==
    /\ svc = "apify"
    /\ running = 0
    /\ elapsed' = IF elapsed < min_request_interval THEN elapsed + 1 ELSE elapsed
    /\ task' = [u \in TaskIds |->
                  IF task[u].rem > 0 THEN [task[u] EXCEPT !.rem = @ - 1] ELSE task[u]]
    /\ <<elapsed, task>>' /= <<elapsed, task>>
    /\ UNCHANGED <<svc, constructed, supVars, procState, termSent, spawnCount,
                   running, jobVars>>

Apify(t) ==
    \/ ApifyRateWake(t)
    \/ ApifyResponse(t)
    \/ ApifySleep(t)

\* The steps of ensure_mcp_running in an instance that adopted no worker: the
\* wait of the second cleanup stage is never entered.
SupervisorFresh(t) ==
    \/ EnsureBegin(t)
    \/ EnsureHealthPeriodic(t)
    \/ EnsureCheckHeld(t)
    \/ EnsureHealthHeld(t)
    \/ EnsurePing(t)
    \/ EnsureAcquire(t)
    \/ EnsureLockWake(t)
    \/ EnsureDoubleCheck(t)
    \/ EnsureHealthLocked(t)
    \/ CleanupBegin(t)
    \/ CleanupClientClosed(t)
    \/ CleanupTerminateChild(t)
    \/ CleanupWaitChild(t)
    \/ CleanupTerminatePid(t)
    \/ CleanupReset(t)
    \/ StartSpawn(t)
    \/ WaitReadyProbe(t)
    \/ ConnectInitialized(t)
    \/ ConnectPinged(t)
    \/ WaitReadySleep(t)

\* The gateway calls of the instance's class, the supervisor steps they take
\* and the worker's own steps.
NextGateway ==
    \/ \E t \in TaskIds : CallGenerate(t)
    \/ \E t \in TaskIds, v \in VideoIds : CallStatus(t, v)
    \/ \E v \in VideoIds : StatusCached(v)
    \/ \E t \in TaskIds : Job(t)
    \/ \E t \in TaskIds : CallScrape(t)
    \/ \E t \in TaskIds : Scrape(t)
    \/ \E t \in TaskIds : Cardinality(InFlight("apify")) < MaxCalls /\ CallApify(t)
    \/ \E t \in TaskIds : Apify(t)
    \/ ClockTick
    \/ \E t \in TaskIds : SupervisorFresh(t)
    \/ \E p \in Pids : WorkerReady(p)
    \/ \E p \in Pids : WorkerExits(p)
    \/ \E p \in Pids : WorkerCrashes(p)

SpecGateway == InitGateway /\ [][NextGateway]_vars

\* ------------------------------------------- the gateways, one call at a time
\* No generate_video or get_video_status call of a request handler is in
\* flight (monitors may be).
NoCall == \A u \in TaskIds : task[u].kind \in {"gen", "status"} => task[u].pc = "done"

\* The steps of ensure_mcp_running when no two calls overlap: the health
\* check under the lock, which needs a worker another caller started while
\* this one waited, is never reached.
SupervisorCall(t) ==
    \/ EnsureBegin(t)
    \/ EnsureHealthPeriodic(t)
    \/ EnsureCheckHeld(t)
    \/ EnsureHealthHeld(t)
    \/ EnsurePing(t)
    \/ EnsureAcquire(t)
    \/ EnsureLockWake(t)
    \/ EnsureDoubleCheck(t)
    \/ CleanupBegin(t)
    \/ CleanupClientClosed(t)
    \/ CleanupTerminateChild(t)
    \/ CleanupWaitChild(t)
    \/ CleanupTerminatePid(t)
    \/ CleanupReset(t)
    \/ StartSpawn(t)
    \/ WaitReadyProbe(t)
    \/ ConnectInitialized(t)
    \/ ConnectPinged(t)
    \/ WaitReadySleep(t)

\* The steps task t takes by itself once it is scheduled: the event loop runs
\* every task that is ready, and every sleep and every awaited request ends
\* (the HTTP requests carry a timeout; the clock goes on).
Step(t) == Job(t) \/ Scrape(t) \/ Apify(t) \/ SupervisorCall(t)

NextCall ==
    \/ \E t \in TaskIds : NoCall /\ CallGenerate(t)
    \/ \E t \in TaskIds, v \in VideoIds : NoCall /\ CallStatus(t, v)
    \/ \E v \in VideoIds : StatusCached(v)
    \/ \E t \in TaskIds : CallScrape(t)
    \/ \E t \in TaskIds : Cardinality(InFlight("apify")) < MaxCalls /\ CallApify(t)
    \/ \E t \in TaskIds : Step(t)
    \/ ClockTick
    \/ \E p \in Pids : WorkerReady(p)
    \/ \E p \in Pids : WorkerExits(p)
    \/ \E p \in Pids : WorkerCrashes(p)

SpecCall ==
    /\ InitGateway
    /\ [][NextCall]_vars
    /\ \A t \in TaskIds : WF_vars(Step(t))
    /\ WF_vars(ClockTick)

\* ------------------------------------- ApifyService under concurrent callers
\* One ApifyService instance (main.py 328) whose _make_request is called by
\* request handlers that overlap.
InitRate == InitGateway /\ svc = "apify"

\* Bound: the _make_request calls made, which may overlap.
MaxOverlap == 2

NextRate ==
    \/ \E t \in 1..MaxOverlap : CallApify(t)
    \/ \E t \in TaskIds : Apify(t)
    \/ ClockTick

SpecRate == InitRate /\ [][NextRate]_vars

\* Task t sends an HTTP request in this step.
Dispatches(t) == task'[t].kind = "apify" /\ task'[t].reqs = task[t].reqs + 1

\* C29: whatever the number of concurrent _make_request callers, a request is
\* sent only when at least min_request_interval has passed since the request
\* sent before it.
C29_RequestsSpaced ==
    [][\A t \in TaskIds : Dispatches(t) => elapsed >= min_request_interval]_vars

\* C30: every _monitor_video_generation task ends, and the step in which it
\* ends leaves the cached status of its job 'completed' or 'failed', whatever
\* the worker answered (a status that is none of processing, completed, failed
\* included) and whatever gateway failure occurred.
MonitorRuns(t) == task[t].kind = "monitor" /\ task[t].pc /= "done"

C30_MonitorEndsTerminal ==
    /\ [][\A t \in TaskIds :
             (MonitorRuns(t) /\ task'[t].pc = "done")
                 => video_status_cache'[task[t].vid].status \in TerminalStatuses]_vars
    /\ \A t \in TaskIds : MonitorRuns(t) ~> task[t].pc = "done"

\* --------------------------------------------- the MiniMax service stopped
\* The same instance while the application shuts down: close() is called
\* (main.py shutdown_event, 411-416) and tasks may be cancelled.  As in
\* SupervisorMM, the wait of the second cleanup stage is never entered.
NextStop ==
    \/ NextJob
    \/ \E t \in TaskIds : CallClose(t)
    \/ \E t \in TaskIds : CancelMonitor(t)

SpecStop == InitJob /\ [][NextStop]_vars

\* ================================================================== claims
\* ensure_mcp_running() of task t returns in this step.
Returns(t) == task[t].kind = "ensure" /\ task[t].pc /= "done" /\ task'[t].pc = "done"

\* _start_mcp of task t returns False in this step.
StartReturnsFalse(t) ==
    task[t].pc = "c_reset" /\ task[t].ccont = "fail" /\ task'[t].pc = "done"

\* Nothing went wrong on its own so far: no worker crashed or hung, no Popen
\* raised, no start failed, and close() was not called.
Untroubled ==
    /\ Faulty = {}
    /\ \A t \in TaskIds :
          /\ task[t].kind \in {"free", "ensure"}
          /\ task[t].ccont /= "fail"
          /\ task[t].sp = (IF task[t].newpid /= 0 THEN 1 ELSE 0)
          /\ (task[t].pc = "done" => task[t].ret)

\* C1: from a state without a worker (no process the PID file could name, no
\* PID file, mcp_pid unset), however many ensure_mcp_running() callers run and
\* however their suspension points interleave, exactly one worker is spawned:
\* never a second one, and one as soon as a caller has returned.
C1_ExactlyOneSpawn ==
    (constructed /\ procState[PriorPid] = "none" /\ Untroubled)
        => /\ spawnCount <= 1
           /\ ((\E t \in TaskIds : task[t].pc = "done") => spawnCount = 1)

\* C4: an ensure_mcp_running() call that overlaps no other call and is made
\* while the held worker is alive and answers (and no worker fails on its own)
\* returns true, spawns nothing and sends no termination signal.
C4_Idempotent ==
    [][\A t \in TaskIds :
          (Returns(t) /\ task'[t].solo /\ task'[t].pre = "live" /\ Faulty' = {})
              => (task'[t].ret /\ task'[t].sp = 0 /\ task'[t].tm = 0)]_vars

\* C5: an ensure_mcp_running() call that overlaps no other call and whose
\* liveness check reports the held worker dead or unresponsive calls Popen
\* exactly once; when it returns true, the PID file and mcp_pid both hold the
\* pid of the child it spawned.
C5_RestartOnce ==
    [][\A t \in TaskIds :
          (Returns(t) /\ task'[t].solo /\ task'[t].sawDead)
              => /\ task'[t].sp = 1
                 /\ (task'[t].ret => /\ task'[t].newpid /= 0
                                     /\ pidFile' = task'[t].newpid
                                     /\ mcp_pid' = task'[t].newpid)]_vars

\* A call that found its worker dead has returned true with a replacement.
C5_Witness ==
    \E t \in TaskIds :
        /\ task[t].kind = "ensure" /\ task[t].pc = "done" /\ task[t].ret
        /\ task[t].solo /\ task[t].sawDead /\ task[t].pre = "dead"
        /\ task[t].newpid /= 0 /\ mcp_pid = task[t].newpid /\ pidFile = task[t].newpid

\* C6: the first ensure_mcp_running() of an instance that adopted the live
\* worker named by the PID file returns true, spawns nothing and leaves the
\* adopted worker unsignalled, as long as that worker does not fail on its own.
C6_AdoptedReused ==
    [][(Returns(1) /\ task'[1].solo /\ task'[1].pre = "live" /\ Faulty' = {})
          => (task'[1].ret /\ spawnCount' = 0 /\ PriorPid \notin termSent')]_vars

\* C7: after _restore_from_pid_file either mcp_pid is the pid in the PID file,
\* which is a live process with the worker signature, or mcp_pid is unset and
\* there is no PID file; nothing is spawned and no process is touched.
C7_RestoreSound ==
    [][(~constructed /\ constructed')
          => /\ \/ /\ mcp_pid' /= None
                   /\ pidFile' = mcp_pid'
                   /\ procState'[mcp_pid'] \in {"starting", "up", "hung"}
                \/ /\ mcp_pid' = None
                   /\ pidFile' = NoFile
             /\ spawnCount' = 0
             /\ procState' = procState
             /\ termSent' = {}]_vars

\* The constructor adopted the worker the PID file names.
C7_Witness == constructed /\ mcp_pid = PriorPid /\ pidFile = PriorPid /\ spawnCount = 0

C2_TerminalAbsorbing ==
    [][\A v \in VideoIds :
          video_status_cache[v].status \in TerminalStatuses
              => video_status_cache'[v] = video_status_cache[v]]_vars

\* C3: a get_video_status call that starts while the cached status is terminal
\* returns the cached record without touching anything else, and every later
\* such call for the same video returns the same record.
C3_CachedAnswerStable ==
    [][\A v \in VideoIds :
          /\ (lastCached'[v] /= lastCached[v] =>
                 /\ lastCached'[v] = video_status_cache[v]
                 /\ UNCHANGED <<task, supVars, video_status_cache, spawnCount>>)
          /\ (lastCached[v] /= NoRec => lastCached'[v] = lastCached[v])]_vars

\* C9: every get_video_status call that ends has returned a VideoStatus whose
\* status is one of the job statuses; none has raised.
C9_StatusNeverRaises ==
    \A t \in TaskIds :
        (task[t].kind = "status" /\ task[t].pc = "done")
            => task[t].out.status \in JobStatuses

\* C10: the step in which generate_video returns after a 200 response has
\* stored the record (processing, progress 0.0) under the returned video_id and
\* created exactly one monitor task for it, which has not run yet; the call
\* returns status 'processing'.
C10_Submission ==
    [][\A t \in TaskIds :
          (task[t].kind = "gen" /\ task[t].pc = "g_post" /\ task'[t].pc = "done"
             /\ task'[t].out.status /= "raised")
              => LET v == task'[t].vid
                     started == {u \in TaskIds : task[u].kind /= "monitor"
                                                 /\ task'[u].kind = "monitor"}
                 IN /\ v \in VideoIds
                    /\ task'[t].out.status = "processing"
                    /\ video_status_cache'[v] = VideoStatus("processing", "zero", "none")
                    /\ monitors'[v] = monitors[v] + 1
                    /\ Cardinality(started) = 1
                    /\ \A u \in started : /\ task'[u].vid = v
                                          /\ task'[u].pc = "m_wait"
                                          /\ task'[u].chk = 0]_vars

\* generate_video has returned and its monitor has not run yet.
C10_Witness ==
    \E t, u \in TaskIds :
        /\ task[t].kind = "gen" /\ task[t].pc = "done" /\ task[t].out.status = "processing"
        /\ task[u].kind = "monitor" /\ task[u].pc = "m_wait" /\ task[u].chk = 0
        /\ task[u].vid = task[t].vid
        /\ video_status_cache[task[t].vid] = InitialVideoStatus
        /\ monitors[task[t].vid] = 1

\* C11: a generate_video call that raises has changed nothing in
\* video_status_cache and has started no monitoring task: every step of the
\* call other than its successful return leaves the cache, the count of
\* monitors created as they were, and turns no task into a monitor.
C11_FailedSubmissionNoEffect ==
    [][\A t \in TaskIds :
          (/\ task[t].kind = "gen"
           /\ task'[t] /= task[t]
           /\ ~(task'[t].pc = "done" /\ task'[t].out.status = "processing"))
              => /\ video_status_cache' = video_status_cache
                 /\ monitors' = monitors
                 /\ \A u \in TaskIds :
                       task'[u].kind = "monitor" => task[u].kind = "monitor"]_vars

\* generate_video has raised after its request was answered, while the job
\* table holds no record and no monitor exists.
C11_Witness ==
    \E t \in TaskIds :
        /\ task[t].kind = "gen" /\ task[t].pc = "done"
        /\ task[t].out.status = "raised" /\ task[t].out.error \in HttpErrors \cup {"error"}
        /\ \A v \in VideoIds : video_status_cache[v] = NoRec /\ monitors[v] = 0
        /\ \A u \in TaskIds : task[u].kind /= "monitor"
\* The monitor task t leaves its loop in this step after max_checks queries
\* that all reported a status that is not terminal.
MonitorTimesOut(t) ==
    /\ task[t].kind = "monitor"
    /\ task[t].pc = "m_end"
    /\ task[t].chk = max_checks
    /\ task'[t] /= task[t]

\* The record the timeout path leaves (lines 468-469).
TimedOut(rec) == [rec EXCEPT !.status = "failed", !.error = "timeout"]

C13_CancelMarksFailed ==
    \A t \in TaskIds :
        (task[t].kind = "monitor" /\ task[t].out = Cancelled)
            => /\ video_status_cache[task[t].vid].status = "failed"
               /\ video_status_cache[task[t].vid].error = "cancelled"

\* C20: when close() returns, no monitoring task is still running.
C20_CloseEndsMonitors ==
    [][\A t \in TaskIds :
          (task[t].kind = "close" /\ task[t].pc /= "done" /\ task'[t].pc = "done")
              => \A u \in TaskIds : task'[u].kind = "monitor" => task'[u].pc = "done"]_vars
\* Task t force-kills worker p in this step (kill() at 304, SIGKILL at 324).
ForceKills(t, p) ==
    /\ task[t].pc \in {"c_pwait", "c_gwait"}
    /\ task'[t] /= task[t]
    /\ procState'[p] /= procState[p]

\* C18: _cleanup_existing_process force-kills a worker only after it has sent
\* that worker the graceful termination signal and has found it still alive
\* after the wait loop of CleanupWaits one-second polls.
C18_KillAfterTerminate ==
    [][\A t \in TaskIds, p \in Pids :
          ForceKills(t, p)
              => /\ p \in termSent
                 /\ Alive(p)
                 /\ task[t].ci = CleanupWaits]_vars
HttpRequestPcs == {"g_post", "q_get", "a_req"}

\* The call of task t has returned to its caller in this step.
CallEnds(t) == task[t].pc \notin {"done", "m_got"} /\ task'[t].pc \in {"done", "m_got"}

\* The call of task t went into a sleep in this step.
Sleeps(t) == Len(task'[t].slept) = Len(task[t].slept) + 1

\* C14: in the HTTP gateways an answer with a 4xx status other than 429 is
\* never followed by a backoff sleep: the step that receives it ends the call,
\* with the failure raised or returned as a failed status.
C14_ClientErrorEndsCall ==
    [][\A t \in TaskIds :
          (task[t].pc \in HttpRequestPcs /\ task'[t] /= task[t])
              => /\ Sleeps(t) => task'[t].slept[Len(task'[t].slept)].why /= "4xx"
                 /\ task'[t].out.error = "4xx"
                      => /\ CallEnds(t)
                         /\ task'[t].out.status \in {"raised", "failed"}
                         /\ task'[t].slept = <<>>]_vars

\* A generate_video call has raised on a 4xx answer to its only request.
C14_Witness ==
    \E t \in TaskIds :
        /\ task[t].kind = "gen" /\ task[t].pc = "done"
        /\ task[t].out = VideoStatus("raised", "none", "4xx")

\* C15: in every HTTP gateway a network error, a timeout, a 5xx or a 429
\* answer on an attempt that is not the last one does not end the call.
C15_RetryableRetried ==
    [][\A t \in TaskIds :
          (/\ task[t].pc \in HttpRequestPcs
           /\ task[t].att < max_retries - 1
           /\ CallEnds(t))
              => task'[t].out.error \notin {"429", "5xx", "error"}]_vars

\* The call of task t made two attempts that were answered with a 5xx status,
\* and in this step its third attempt returns a result without error.
ThirdAttemptSucceeds(t) ==
    /\ task[t].pc \in HttpRequestPcs
    /\ task[t].att = 2
    /\ \A i \in 1..Len(task[t].slept) : task[t].slept[i].why = "5xx"
    /\ CallEnds(t)
    /\ task'[t].out.status \notin {"raised", "failed"}
    /\ task'[t].out.error = "none"

TwoBackoffs == <<[d |-> 2, why |-> "5xx"], [d |-> 4, why |-> "5xx"]>>

Terminates == \A t \in TaskIds : (task[t].pc /= "idle") ~> (task[t].pc = "done")

C21_DetailsIffCompleted ==
    [][\A t \in TaskIds :
          (task[t].pc = "r_got" /\ task'[t] /= task[t])
              => /\ task'[t].pc = "done"
                 /\ task'[t].out \in {NoResult, VideoDetails}
                 /\ task'[t].out = VideoDetails <=> task[t].out.status = "completed"]_vars

\* One get_completed_video call has returned the details and another None.
C21_Witness ==
    \E t, u \in TaskIds :
        /\ task[t].kind = "result" /\ task[t].pc = "done" /\ task[t].out = VideoDetails
        /\ task[u].kind = "result" /\ task[u].pc = "done" /\ task[u].out = NoResult

\* ----------------------------------------------------- the startup lock
\* Task t is inside _start_mcp: in the cleanup it begins with or the cleanup
\* of a failed start, at the spawn, or in the readiness wait.
InStartMcp(t) ==
    \/ task[t].pc \in {"s_spawn", "w_probe", "w_ping", "w_sleep"}
    \/ /\ task[t].pc \in {"c_begin", "c_closing", "c_proc", "c_pwait", "c_pid",
                           "c_gwait", "c_reset"}
       /\ task[t].ccont \in {"spawn", "fail"}

\* C22: at every moment at most one execution of _start_mcp is in progress,
\* and the task executing it holds _startup_lock.
C22_OneStartAtATime ==
    /\ Cardinality({t \in TaskIds : InStartMcp(t)}) <= 1
    /\ \A t \in TaskIds : InStartMcp(t) => lock_owner = t

\* One caller is in the readiness wait of _start_mcp while two others wait
\* for the lock.
C22_Witness ==
    \E t \in TaskIds :
        /\ task[t].pc = "w_sleep"
        /\ Len(lock_waiters) = 2

\* --------------------------------------------------- health-check throttle
\* The positions in which ensure_mcp_running waits for the answer of a
\* liveness probe (HTTP /status, session ping).
ProbePcs == {"e_hc1", "e_hc2", "e_hc3", "e_ping", "w_probe", "w_ping"}

\* C23: a call of ensure_mcp_running that holds a worker identity and finds
\* the last health check less than health_check_interval old makes no
\* liveness probe: its next step returns True.
C23_ThrottledNoProbe ==
    [][\A t \in TaskIds :
          (task[t].pc = "e_fresh" /\ task'[t] /= task[t])
              => /\ task'[t].pc \notin ProbePcs
                 /\ task'[t].pc = "done"
                 /\ task'[t].ret]_vars

\* ------------------------------------------------- one monitor per video
\* The _monitor_video_generation tasks of video v that were created and have
\* not ended.
RunningMonitors(v) ==
    {t \in TaskIds : task[t].kind = "monitor" /\ task[t].vid = v /\ task[t].pc /= "done"}

\* C24: for every video_id at most one _monitor_video_generation task is
\* running at any moment.
C24_OneMonitorPerVideo == \A v \in VideoIds : Cardinality(RunningMonitors(v)) <= 1

\* ------------------------------------------------ status queries of a job
\* The tasks waiting for the answer to a status request for video v.
StatusRequests(v) == {t \in TaskIds : task[t].pc = "q_get" /\ task[t].vid = v}

\* C25: for every video_id at most one status request is in flight at a
\* time, and once generate_video has created the record only the monitor
\* task of that video writes it.
C25_QueriesSequential ==
    [][\A v \in VideoIds :
          /\ Cardinality(StatusRequests(v))' <= 1
          /\ (InCache(v) /\ video_status_cache'[v] /= video_status_cache[v])
                => \E t \in TaskIds :
                      /\ task'[t] /= task[t]
                      /\ \/ task[t].kind = "gen"
                         \/ task[t].kind = "monitor" /\ task[t].vid = v]_vars

\* ------------------------------------- gateway failure in a status query
\* The failures of the request itself: an HTTP error status, or a request
\* error (connection refused, timeout).
GatewayErrors == HttpErrors \cup {"error"}

\* The get_video_status call of task t ends in this step on a failed request.
StatusQueryFails(t) ==
    /\ task[t].pc = "q_get"
    /\ CallEnds(t)
    /\ task'[t].out.error \in GatewayErrors

\* C26: when the request of get_video_status fails for good, the call returns
\* a synthetic 'failed' status carrying the error if no record is cached; if
\* a 'processing' record is cached, the record stays 'processing' and only
\* gets the error attached.
C26_FailureKeepsStatus ==
    [][\A t \in TaskIds :
          StatusQueryFails(t)
              => LET v == task[t].vid
                     e == task'[t].out.error
                 IN /\ ~InCache(v)
                         => /\ task'[t].out = VideoStatus("failed", "none", e)
                            /\ ~InCache(v)'
                    /\ video_status_cache[v].status = "processing"
                         => video_status_cache'[v] =
                               [video_status_cache[v] EXCEPT !.error = e]]_vars

\* --------------------------------------------- no dispatch without a worker
\* The positions inside ensure_mcp_running and what it calls.
EnsurePcs == {"e_begin", "e_fresh", "e182", "e_hc1", "e_hc2", "e_ping", "e_lock",
              "e_lockwait", "e196", "e_hc3", "c_begin", "c_closing", "c_proc",
              "c_pwait", "c_pid", "c_gwait", "c_reset", "s_spawn", "w_probe",
              "w_ping", "w_sleep"}

\* The ensure_mcp_running call of task t returns to the gateway in this step.
EnsureAnswers(t) == task[t].pc \in EnsurePcs /\ task'[t].pc \notin EnsurePcs

\* The call of task t has made no attempt yet.
FirstEnsure(t) == task[t].reqs = 0 /\ task[t].slept = <<>>

\* C27: the worker gateways send their first request only after
\* ensure_mcp_running returned True; when that call returns False the gateway
\* sends no request and fails with the worker-unavailable error.
C27_NoDispatchWithoutWorker ==
    [][\A t \in TaskIds :
          (task[t].kind \in {"gen", "status", "monitor", "scrape"} /\ task'[t] /= task[t])
              => /\ (task[t].reqs = 0 /\ task'[t].reqs = 1) => task'[t].ret
                 /\ (EnsureAnswers(t) /\ FirstEnsure(t) /\ ~task'[t].ret)
                      => /\ task'[t].reqs = 0
                         /\ task'[t].pc \in {"done", "m_except"}
                         /\ task'[t].out = Raised]_vars

\* A generate_video call has failed with the worker-unavailable error.
C27_Witness ==
    \E t \in TaskIds :
        /\ task[t].kind = "gen" /\ task[t].pc = "done"
        /\ task[t].out = Raised /\ ~task[t].ret

\* ------------------------------------------------ re-verification on retry
\* The positions in which a worker gateway sleeps before a retry.
RetrySleepPcs == {"g_sleep", "q_sleep", "s_sleep"}

\* C28: in the worker gateways a retry begins with a call of
\* ensure_mcp_running: when the backoff sleep ends the call enters
\* ensure_mcp_running before it sends the next request, and no request is
\* counted for it.
C28_ReverifyOnRetry ==
    [][\A t \in TaskIds :
          (task[t].pc \in RetrySleepPcs /\ task'[t] /= task[t])
              => /\ task'[t].pc = "e_begin"
                 /\ task'[t].reqs = task[t].reqs
                 /\ task'[t].att = task[t].att + 1]_vars

\* C31: whatever the worker puts in the status field of its answers, every
\* record of video_status_cache has a status among processing, completed and
\* failed.
C31_StatusDomain ==
    \A v \in VideoIds : InCache(v) => video_status_cache[v].status \in JobStatuses

Spawns == spawnCount' = spawnCount + 1

\* C33: when _start_mcp spawns a worker, every live worker the instance spawned
\* or adopted before has been sent a termination signal (the processes with
\* the worker signature are its own children and the process it adopted from
\* the PID file), an adopted worker that fails the health check included.
C33_OneOwnedWorker ==
    [][Spawns => \A p \in Pids : Alive(p) => p \in termSent]_vars

\* ------------------------------------------------ the readiness loops
\* A freshly constructed MiniMax or BrightData instance whose callers go
\* through _start_mcp; a starting worker may answer with an error status.
InitReady == InitGateway /\ svc \in {"minimax", "brightdata"}

NextReady ==
    \/ \E t \in TaskIds : CallEnsure(t)
    \/ \E t \in TaskIds : SupervisorFresh(t)
    \/ \E t \in TaskIds : WaitReadyNot200(t)
    \/ \E p \in Pids : WorkerReady(p)
    \/ \E p \in Pids : WorkerExits(p)
    \/ \E p \in Pids : WorkerCrashes(p)
    \/ \E p \in Pids : WorkerHangs(p)

SpecReady == InitReady /\ [][NextReady]_vars

\* The delays of the sleeps of one readiness loop, in seconds.
ReadyDelays == <<2, 4, 8, 10, 10>>

\* The answer to a readiness probe of task t arrives in this step.
ProbeAnswered(t) ==
    /\ task[t].pc \in {"w_probe", "w_ping"}
    /\ task'[t].pc /= task[t].pc \/ task'[t].reqs /= task[t].reqs

\* The probe succeeded (the loop goes on to ping, or returns True), or the
\* child was seen to have exited (the loop returns False).
ProbeSettled(t) ==
    \/ task'[t].pc = "w_ping"
    \/ task'[t].pc = "done" /\ task'[t].ret
    \/ task'[t].pc = "c_begin"

\* C34: in _wait_for_mcp_ready and _connect_to_mcp every unsuccessful readiness
\* probe (request error, timeout, non-200 answer) is followed by a sleep
\* before the next probe, and the k-th sleep lasts min(retry_delay * 2^(k-1), 10)
\* seconds: 2, 4, 8, 10, 10.
C34_ProbeThenBackoff ==
    [][\A t \in TaskIds :
          (ProbeAnswered(t) /\ ~ProbeSettled(t))
              => /\ task'[t].pc = "w_sleep"
                 /\ task'[t].rc = task[t].rc + 1
                 /\ task'[t].rc <= Len(ReadyDelays)
                 /\ task'[t].rem = ReadyDelays[task'[t].rc]]_vars

\* The child task t spawned in its _start_mcp has exited.
ChildExited(t) == task[t].newpid /= 0 /\ ~Alive(task[t].newpid)

\* The readiness loop of task t reaches its test of the child in this step:
\* MiniMax after a probe (272), BrightData at the top of an iteration (224).
ChildTested(t) ==
    \/ svc = "minimax" /\ ProbeAnswered(t)
    \/ /\ svc = "brightdata"
       /\ task[t].pc = "w_sleep"
       /\ task'[t].pc /= "w_sleep" \/ task'[t].rc /= task[t].rc

\* C35: when the spawned child has exited while the supervisor waits for
\* readiness, the wait returns False at its next probe instead of sleeping
\* through the rest of startup_timeout, and _start_mcp goes to its failure
\* branch, which returns False.
C35_EarlyExitFatal ==
    [][\A t \in TaskIds :
          (ChildExited(t) /\ ChildTested(t))
              => task'[t].pc = "c_begin" /\ task'[t].ccont = "fail"]_vars

\* C36: a termination signal goes only to a pid that passes
\* _is_process_running at that moment (a live process with the worker
\* signature); a process without the signature, such as one that reused the
\* pid in the PID file, is never adopted, never signalled and never ended.
C36_NoForeignSignal ==
    [][/\ \A p \in termSent' \ termSent : IsProcessRunning(p)
       /\ \A p \in Pids :
             procState[p] = "foreign"
                 => /\ p \notin termSent'
                    /\ mcp_pid' /= p
                    /\ procState'[p] = "foreign"]_vars

\* The PID file named an unrelated process; the instance has since started a
\* worker of its own and signalled it, and the unrelated process is untouched.
C36_Witness ==
    /\ constructed
    /\ procState[PriorPid] = "foreign"
    /\ PriorPid \notin termSent
    /\ termSent /= {}
    /\ \E t \in TaskIds : task[t].tm = 1

\* ------------------------------------------------------------ two jobs
\* The MiniMax instance after two generate_video calls returned with the video
\* ids 1 and 2: the worker it started (pid 2) answers, both records are in the
\* cache and both monitor tasks (slots 1 and 2) have been created.  The
\* handlers that made the calls are gone; the monitors do the status queries.
JobIds == {1, 2}

InitTwoJobs ==
    /\ svc = "minimax"
    /\ constructed = TRUE
    /\ elapsed = min_request_interval
    /\ mcp_pid = 2
    /\ mcp_process = 2
    /\ mcp_session = None
    /\ hcChecked = FALSE
    /\ pidFile = 2
    /\ procState = [p \in Pids |-> IF p = 2 THEN "up" ELSE "none"]
    /\ lock_owner = 0
    /\ lock_waiters = <<>>
    /\ termSent = {}
    /\ spawnCount = 1
    /\ task = [t \in TaskIds |-> IF t \in JobIds THEN NewMonitor(t) ELSE IdleTask]
    /\ running = 0
    /\ video_status_cache = [v \in JobIds |-> InitialVideoStatus]
    /\ monitors = [v \in JobIds |-> 1]
    /\ lastCached = [v \in JobIds |-> NoRec]

\* The steps of get_video_status and of _monitor_video_generation.
Poll(t) ==
    \/ StatusResponse(t)
    \/ StatusSleep(t)
    \/ MonitorWake(t)
    \/ MonitorGot(t)
    \/ MonitorEnd(t)
    \/ MonitorExcept(t)

NextTwoJobs ==
    \/ \E t \in TaskIds : Poll(t)
    \/ \E t \in TaskIds : SupervisorMM(t)
    \/ \E p \in Pids : WorkerReady(p)
    \/ \E p \in Pids : WorkerExits(p)
    \/ \E p \in Pids : WorkerCrashes(p)
    \/ \E p \in Pids : WorkerHangs(p)

SpecTwoJobs == InitTwoJobs /\ [][NextTwoJobs]_vars

\* C37: a step of get_video_status(v) or of the monitor task of v changes no
\* cache record but that of v, however the monitors of different jobs
\* interleave.
C37_JobsIndependent ==
    [][\A t \in TaskIds :
          (task'[t].kind \in {"status", "monitor"} /\ task'[t] /= task[t])
              => \A w \in JobIds \ {task'[t].vid} :
                    video_status_cache'[w] = video_status_cache[w]]_vars

\* Both monitors have ended, one with its job completed and the other with its
\* job failed.
C37_Witness ==
    /\ task[1].kind = "monitor" /\ task[1].pc = "done"
    /\ task[2].kind = "monitor" /\ task[2].pc = "done"
    /\ video_status_cache[1].status = "completed"
    /\ video_status_cache[2].status = "failed"

\* C38: when ensure_mcp_running() returns True, mcp_pid is the pid of a live
\* worker and the PID file holds that pid.  (The claim goes on: no caller that
\* was in progress at that moment terminates that worker afterwards while it
\* stays responsive.  That half presupposes this one, which is what is
\* checked.)
C38_TrueIsTracked ==
    [][\A t \in TaskIds :
          (Returns(t) /\ task'[t].ret)
              => /\ mcp_pid' /= None
                 /\ IsProcessRunning(mcp_pid')
                 /\ pidFile' = mcp_pid']_vars

\* close() had returned before this step, and task t was created before that
\* close() was called (task slots are handed out in the order of creation; a
\* monitor has the slot after the generate_video call that created it).
ClosedSince(t) ==
    \E c \in TaskIds : task[c].kind = "close" /\ task[c].pc = "done" /\ t < c

\* C39: once close() has returned, no worker is spawned by anything that was
\* started before it; in particular a _monitor_video_generation task started
\* before close() causes no spawn (through get_video_status and
\* ensure_mcp_running) after it.
C39_NoResurrection ==
    [][\A t \in TaskIds :
          (task[t].pc = "s_spawn" /\ task'[t].pc = "w_probe") => ~ClosedSince(t)]_vars

\* ------------------------------------------- the supervisor, scheduled fairly
\* The event loop runs every task that is ready: a sleep ends, an awaited
\* probe is answered or times out (the HTTP probes of MiniMax carry a
\* timeout), a freed lock wakes its first waiter.  The workers are under no
\* obligation: a worker may stay unready for ever.

\* BrightData _connect_to_mcp lines 238-249: session.initialize() and
\* session.ping() are awaited with no timeout (request_timeout, line 68, is not
\* used), and startup_timeout is tested only between two attempts (221).  A
\* worker that is alive and has not answered leaves the await pending.
ConnectBlocks(t) ==
    /\ svc = "brightdata"
    /\ task[t].pc = "w_probe"
    /\ running = 0
    /\ task[t].sess /= None
    /\ procState[task[t].sess] = "starting"
    /\ task' = [task EXCEPT ![t].pc = "w_blocked"]
    /\ running' = 0
    /\ UNCHANGED <<svc, constructed, elapsed, supVars, procState, termSent, spawnCount,
                   jobVars>>

\* The pending await ends once the worker answers or its pipe closes: the
\* attempt goes on as in ConnectInitialized.
ConnectUnblocks(t) ==
    /\ svc = "brightdata"
    /\ task[t].pc = "w_blocked"
    /\ running = 0
    /\ procState[task[t].sess] /= "starting"
    /\ task' = [task EXCEPT ![t].pc = "w_probe"]
    /\ running' = 0
    /\ UNCHANGED <<svc, constructed, elapsed, supVars, procState, termSent, spawnCount,
                   jobVars>>

NextEnsure ==
    \/ \E t \in TaskIds : CallEnsure(t)
    \/ \E t \in TaskIds : SupervisorFresh(t)
    \/ \E t \in TaskIds : ConnectBlocks(t)
    \/ \E t \in TaskIds : ConnectUnblocks(t)
    \/ \E p \in Pids : WorkerReady(p)
    \/ \E p \in Pids : WorkerExits(p)
    \/ \E p \in Pids : WorkerCrashes(p)

SpecEnsure ==
    /\ InitReady
    /\ [][NextEnsure]_vars
    /\ \A t \in TaskIds : WF_vars(SupervisorFresh(t))
    /\ \A t \in TaskIds : WF_vars(ConnectUnblocks(t))

\* C40: every ensure_mcp_running() call ends with True or False, whatever the
\* workers do (never ready, early exit, spawn error) and however the calls
\* interleave; no caller waits on _startup_lock for ever, and the lock is free
\* whenever no call is executing.
C40_EnsureTerminates ==
    /\ \A t \in TaskIds : (task[t].kind = "ensure") ~> (task[t].pc = "done")
    /\ \A t \in TaskIds : (task[t].pc = "e_lockwait") ~> (task[t].pc /= "e_lockwait")
    /\ []((\A t \in TaskIds : Quiet(t)) => (lock_owner = 0 /\ lock_waiters = <<>>))

====
